---- MODULE Spec2Model ----
(***************************************************************************)
(* Tile Puzzles applet (src/src/applets/tile-puzzles/index.jsx with the    *)
(* shape library and level catalogue of levels.js): the polyomino engine   *)
(* as a state machine.  One action per event handler of the component;     *)
(* the helper functions of the source are operators of the same name.      *)
(*                                                                         *)
(* Cell lists are sequences of <<row, col>> pairs, as the arrays of the    *)
(* source.  Piece ids and level indices are 0-based as in the source.      *)
(* JS null is the integer Null.  Rendering-only state (colours, confetti,  *)
(* rotAnimRef, the write-only x / y / moved fields of dragStart) is left   *)
(* out: no handler reads it.                                               *)
(***************************************************************************)
EXTENDS Integers, Sequences, FiniteSets, TLC

VARIABLES levelIndex, pieces, grid, drag, dragStart, completed, levelCache,
          gesture, downRotation, steps, now, seen

vars == <<levelIndex, pieces, grid, drag, dragStart, completed, levelCache,
          gesture, downRotation, steps, now, seen>>

(* ---------------- bounds of the model ---------------- *)

\* number of handler invocations explored from the initial state
MaxSteps == 5
\* number of quarter turns and removals applied to a level of the catalogue
MaxTurns == 3

\* JS null
Null == -1

(* ---------------- layout constants ---------------- *)

CELL == 40
PAD == 20
DRAG_LIFT_MOUSE == 30
DRAG_LIFT_TOUCH == 80
SUM_GUTTER == 70

(* ---------------- small helpers ---------------- *)

Range(s) == {s[i] : i \in 1..Len(s)}

MaxOf(S) == CHOOSE m \in S : \A x \in S : x <= m

MinOf(S) == CHOOSE m \in S : \A x \in S : m <= x

\* Math.round(num / den) for den > 0: the nearest integer, halves towards +infinity
RoundDiv(num, den) == (2 * num + den) \div (2 * den)

(* ---------------- shape library (levels.js) ---------------- *)

\* rotateCW with a slip in the column of the rotated cell: maxR - c for maxR - r
rotateCWSlip(cells) ==
  LET maxR == MaxOf({cells[i][1] : i \in 1..Len(cells)})
      rotated == [i \in 1..Len(cells) |-> <<cells[i][2], maxR - cells[i][2]>>]
      minR == MinOf({rotated[i][1] : i \in 1..Len(rotated)})
      minC == MinOf({rotated[i][2] : i \in 1..Len(rotated)})
  IN [i \in 1..Len(rotated) |-> <<rotated[i][1] - minR, rotated[i][2] - minC>>]

\* the quarter turn about the origin, [r, c] -> [c, -r], not moved back to it
rotateCWRaw(cells) == [i \in 1..Len(cells) |-> <<cells[i][2], 0 - cells[i][1]>>]

rotateCW(cells) ==
  LET maxR == MaxOf({cells[i][1] : i \in 1..Len(cells)})
      rotated == [i \in 1..Len(cells) |-> <<cells[i][2], maxR - cells[i][1]>>]
      minR == MinOf({rotated[i][1] : i \in 1..Len(rotated)})
      minC == MinOf({rotated[i][2] : i \in 1..Len(rotated)})
  IN [i \in 1..Len(rotated) |-> <<rotated[i][1] - minR, rotated[i][2] - minC>>]

SHAPES ==
  [ bar2 |-> << <<0,0>>, <<0,1>> >>,
    bar3 |-> << <<0,0>>, <<0,1>>, <<0,2>> >>,
    L3   |-> << <<0,0>>, <<1,0>>, <<1,1>> >>,
    bar4 |-> << <<0,0>>, <<0,1>>, <<0,2>>, <<0,3>> >>,
    L4   |-> << <<0,0>>, <<1,0>>, <<2,0>>, <<2,1>> >>,
    J4   |-> << <<0,1>>, <<1,1>>, <<2,1>>, <<2,0>> >>,
    S4   |-> << <<0,1>>, <<0,2>>, <<1,0>>, <<1,1>> >>,
    Z4   |-> << <<0,0>>, <<0,1>>, <<1,1>>, <<1,2>> >>,
    T4   |-> << <<0,0>>, <<0,1>>, <<0,2>>, <<1,1>> >>,
    sq4  |-> << <<0,0>>, <<0,1>>, <<1,0>>, <<1,1>> >>,
    bar5 |-> << <<0,0>>, <<0,1>>, <<0,2>>, <<0,3>>, <<0,4>> >>,
    L5   |-> << <<0,0>>, <<1,0>>, <<2,0>>, <<3,0>>, <<3,1>> >>,
    J5   |-> << <<0,1>>, <<1,1>>, <<2,1>>, <<3,1>>, <<3,0>> >>,
    T5   |-> << <<0,0>>, <<0,1>>, <<0,2>>, <<1,1>>, <<2,1>> >>,
    U5   |-> << <<0,0>>, <<0,2>>, <<1,0>>, <<1,1>>, <<1,2>> >>,
    P5   |-> << <<0,0>>, <<0,1>>, <<1,0>>, <<1,1>>, <<2,0>> >>,
    F5   |-> << <<0,1>>, <<0,2>>, <<1,0>>, <<1,1>>, <<2,1>> >>,
    Y5   |-> << <<0,0>>, <<1,0>>, <<1,1>>, <<2,0>>, <<3,0>> >>,
    N5   |-> << <<0,0>>, <<1,0>>, <<1,1>>, <<2,1>>, <<3,1>> >> ]

(* ---------------- level catalogue (levels.js) ---------------- *)
\* LEVELS[i] is the i-th entry of the array; label, id and difficulty are
\* display-only and left out.
LEVELS ==
  (0 :> [ gridWidth |-> 2, gridHeight |-> 3, pieceSize |-> 2,
          pieces |-> <<"bar2", "bar2", "bar2">>,
          canonicalSolutions |->
            << [pieceIndex |-> 0, row |-> 0, col |-> 0, rotation |-> 0],
               [pieceIndex |-> 1, row |-> 1, col |-> 0, rotation |-> 0],
               [pieceIndex |-> 2, row |-> 2, col |-> 0, rotation |-> 0] >> ])
  @@
  (1 :> [ gridWidth |-> 4, gridHeight |-> 2, pieceSize |-> 2,
          pieces |-> <<"bar2", "bar2", "bar2", "bar2">>,
          canonicalSolutions |->
            << [pieceIndex |-> 0, row |-> 0, col |-> 0, rotation |-> 0],
               [pieceIndex |-> 1, row |-> 0, col |-> 2, rotation |-> 0],
               [pieceIndex |-> 2, row |-> 1, col |-> 0, rotation |-> 0],
               [pieceIndex |-> 3, row |-> 1, col |-> 2, rotation |-> 0] >> ])
  @@
  (2 :> [ gridWidth |-> 2, gridHeight |-> 4, pieceSize |-> 2,
          pieces |-> <<"bar2", "bar2", "bar2", "bar2">>,
          canonicalSolutions |->
            << [pieceIndex |-> 0, row |-> 0, col |-> 0, rotation |-> 0],
               [pieceIndex |-> 1, row |-> 1, col |-> 0, rotation |-> 0],
               [pieceIndex |-> 2, row |-> 2, col |-> 0, rotation |-> 0],
               [pieceIndex |-> 3, row |-> 3, col |-> 0, rotation |-> 0] >> ])
  @@
  (3 :> [ gridWidth |-> 3, gridHeight |-> 2, pieceSize |-> 3,
          pieces |-> <<"bar3", "bar3">>,
          canonicalSolutions |->
            << [pieceIndex |-> 0, row |-> 0, col |-> 0, rotation |-> 0],
               [pieceIndex |-> 1, row |-> 1, col |-> 0, rotation |-> 0] >> ])
  @@
  (4 :> [ gridWidth |-> 3, gridHeight |-> 3, pieceSize |-> 3,
          pieces |-> <<"L3", "L3", "bar3">>,
          canonicalSolutions |->
            << [pieceIndex |-> 0, row |-> 0, col |-> 0, rotation |-> 0],
               [pieceIndex |-> 1, row |-> 0, col |-> 1, rotation |-> 2],
               [pieceIndex |-> 2, row |-> 2, col |-> 0, rotation |-> 0] >> ])
  @@
  (5 :> [ gridWidth |-> 6, gridHeight |-> 2, pieceSize |-> 3,
          pieces |-> <<"bar3", "bar3", "bar3", "bar3">>,
          canonicalSolutions |->
            << [pieceIndex |-> 0, row |-> 0, col |-> 0, rotation |-> 0],
               [pieceIndex |-> 1, row |-> 0, col |-> 3, rotation |-> 0],
               [pieceIndex |-> 2, row |-> 1, col |-> 0, rotation |-> 0],
               [pieceIndex |-> 3, row |-> 1, col |-> 3, rotation |-> 0] >> ])
  @@
  (6 :> [ gridWidth |-> 4, gridHeight |-> 2, pieceSize |-> 4,
          pieces |-> <<"bar4", "bar4">>,
          canonicalSolutions |->
            << [pieceIndex |-> 0, row |-> 0, col |-> 0, rotation |-> 0],
               [pieceIndex |-> 1, row |-> 1, col |-> 0, rotation |-> 0] >> ])
  @@
  (7 :> [ gridWidth |-> 4, gridHeight |-> 3, pieceSize |-> 4,
          pieces |-> <<"sq4", "sq4", "bar4">>,
          canonicalSolutions |->
            << [pieceIndex |-> 0, row |-> 0, col |-> 0, rotation |-> 0],
               [pieceIndex |-> 1, row |-> 0, col |-> 2, rotation |-> 0],
               [pieceIndex |-> 2, row |-> 2, col |-> 0, rotation |-> 0] >> ])
  @@
  (8 :> [ gridWidth |-> 4, gridHeight |-> 3, pieceSize |-> 4,
          pieces |-> <<"L4", "J4", "sq4">>,
          canonicalSolutions |->
            << [pieceIndex |-> 0, row |-> 0, col |-> 0, rotation |-> 0],
               [pieceIndex |-> 1, row |-> 0, col |-> 2, rotation |-> 0],
               [pieceIndex |-> 2, row |-> 0, col |-> 1, rotation |-> 0] >> ])
  @@
  (9 :> [ gridWidth |-> 4, gridHeight |-> 4, pieceSize |-> 4,
          pieces |-> <<"L4", "L4", "S4", "bar4">>,
          canonicalSolutions |->
            << [pieceIndex |-> 0, row |-> 0, col |-> 0, rotation |-> 0],
               [pieceIndex |-> 1, row |-> 0, col |-> 2, rotation |-> 2],
               [pieceIndex |-> 2, row |-> 0, col |-> 1, rotation |-> 1],
               [pieceIndex |-> 3, row |-> 3, col |-> 0, rotation |-> 0] >> ])
  @@
  (10 :> [ gridWidth |-> 5, gridHeight |-> 4, pieceSize |-> 4,
          pieces |-> <<"sq4", "sq4", "bar4", "bar4", "bar4">>,
          canonicalSolutions |->
            << [pieceIndex |-> 0, row |-> 0, col |-> 0, rotation |-> 0],
               [pieceIndex |-> 1, row |-> 2, col |-> 0, rotation |-> 0],
               [pieceIndex |-> 2, row |-> 0, col |-> 2, rotation |-> 1],
               [pieceIndex |-> 3, row |-> 0, col |-> 3, rotation |-> 1],
               [pieceIndex |-> 4, row |-> 0, col |-> 4, rotation |-> 1] >> ])
  @@
  (11 :> [ gridWidth |-> 4, gridHeight |-> 5, pieceSize |-> 4,
          pieces |-> <<"sq4", "sq4", "sq4", "sq4", "bar4">>,
          canonicalSolutions |->
            << [pieceIndex |-> 0, row |-> 0, col |-> 0, rotation |-> 0],
               [pieceIndex |-> 1, row |-> 0, col |-> 2, rotation |-> 0],
               [pieceIndex |-> 2, row |-> 2, col |-> 0, rotation |-> 0],
               [pieceIndex |-> 3, row |-> 2, col |-> 2, rotation |-> 0],
               [pieceIndex |-> 4, row |-> 4, col |-> 0, rotation |-> 0] >> ])
  @@
  (12 :> [ gridWidth |-> 5, gridHeight |-> 2, pieceSize |-> 5,
          pieces |-> <<"bar5", "bar5">>,
          canonicalSolutions |->
            << [pieceIndex |-> 0, row |-> 0, col |-> 0, rotation |-> 0],
               [pieceIndex |-> 1, row |-> 1, col |-> 0, rotation |-> 0] >> ])
  @@
  (13 :> [ gridWidth |-> 5, gridHeight |-> 3, pieceSize |-> 5,
          pieces |-> <<"bar5", "P5", "P5">>,
          canonicalSolutions |->
            << [pieceIndex |-> 0, row |-> 0, col |-> 0, rotation |-> 0],
               [pieceIndex |-> 1, row |-> 1, col |-> 0, rotation |-> 3],
               [pieceIndex |-> 2, row |-> 1, col |-> 2, rotation |-> 1] >> ])
  @@
  (14 :> [ gridWidth |-> 5, gridHeight |-> 4, pieceSize |-> 5,
          pieces |-> <<"bar5", "bar5", "P5", "P5">>,
          canonicalSolutions |->
            << [pieceIndex |-> 0, row |-> 0, col |-> 0, rotation |-> 0],
               [pieceIndex |-> 1, row |-> 1, col |-> 0, rotation |-> 0],
               [pieceIndex |-> 2, row |-> 2, col |-> 0, rotation |-> 3],
               [pieceIndex |-> 3, row |-> 2, col |-> 2, rotation |-> 1] >> ])
  @@
  (15 :> [ gridWidth |-> 6, gridHeight |-> 5, pieceSize |-> 5,
          pieces |-> <<"bar5", "bar5", "bar5", "bar5", "bar5", "bar5">>,
          canonicalSolutions |->
            << [pieceIndex |-> 0, row |-> 0, col |-> 0, rotation |-> 1],
               [pieceIndex |-> 1, row |-> 0, col |-> 1, rotation |-> 1],
               [pieceIndex |-> 2, row |-> 0, col |-> 2, rotation |-> 1],
               [pieceIndex |-> 3, row |-> 0, col |-> 3, rotation |-> 1],
               [pieceIndex |-> 4, row |-> 0, col |-> 4, rotation |-> 1],
               [pieceIndex |-> 5, row |-> 0, col |-> 5, rotation |-> 1] >> ])
  @@
  (16 :> [ gridWidth |-> 5, gridHeight |-> 5, pieceSize |-> 5,
          pieces |-> <<"bar5", "bar5", "bar5", "P5", "P5">>,
          canonicalSolutions |->
            << [pieceIndex |-> 0, row |-> 0, col |-> 0, rotation |-> 0],
               [pieceIndex |-> 1, row |-> 1, col |-> 0, rotation |-> 0],
               [pieceIndex |-> 2, row |-> 2, col |-> 0, rotation |-> 0],
               [pieceIndex |-> 3, row |-> 3, col |-> 0, rotation |-> 3],
               [pieceIndex |-> 4, row |-> 3, col |-> 2, rotation |-> 1] >> ])
  @@
  (17 :> [ gridWidth |-> 5, gridHeight |-> 6, pieceSize |-> 5,
          pieces |-> <<"L5", "L5", "L5", "L5", "L5", "L5">>,
          canonicalSolutions |->
            << [pieceIndex |-> 0, row |-> 0, col |-> 0, rotation |-> 1],
               [pieceIndex |-> 1, row |-> 0, col |-> 1, rotation |-> 3],
               [pieceIndex |-> 2, row |-> 2, col |-> 0, rotation |-> 1],
               [pieceIndex |-> 3, row |-> 2, col |-> 1, rotation |-> 3],
               [pieceIndex |-> 4, row |-> 4, col |-> 0, rotation |-> 1],
               [pieceIndex |-> 5, row |-> 4, col |-> 1, rotation |-> 3] >> ])

(* The older copy of levels.js kept in the repository: same rotateCW and
   SHAPES, eighteen levels with the same fields, other grids and other
   canonical solutions. *)
OlderLEVELS ==
  (0 :> [ gridWidth |-> 3, gridHeight |-> 2, pieceSize |-> 2,
          pieces |-> <<"bar2", "bar2", "bar2">>,
          canonicalSolutions |->
            << [pieceIndex |-> 0, row |-> 0, col |-> 0, rotation |-> 0],
               [pieceIndex |-> 1, row |-> 0, col |-> 1, rotation |-> 1],
               [pieceIndex |-> 2, row |-> 0, col |-> 2, rotation |-> 1] >> ])
  @@
  (1 :> [ gridWidth |-> 4, gridHeight |-> 2, pieceSize |-> 2,
          pieces |-> <<"bar2", "bar2", "bar2", "bar2">>,
          canonicalSolutions |->
            << [pieceIndex |-> 0, row |-> 0, col |-> 0, rotation |-> 0],
               [pieceIndex |-> 1, row |-> 1, col |-> 0, rotation |-> 0],
               [pieceIndex |-> 2, row |-> 0, col |-> 2, rotation |-> 0],
               [pieceIndex |-> 3, row |-> 1, col |-> 2, rotation |-> 0] >> ])
  @@
  (2 :> [ gridWidth |-> 2, gridHeight |-> 4, pieceSize |-> 2,
          pieces |-> <<"bar2", "bar2", "bar2", "bar2">>,
          canonicalSolutions |->
            << [pieceIndex |-> 0, row |-> 0, col |-> 0, rotation |-> 0],
               [pieceIndex |-> 1, row |-> 1, col |-> 0, rotation |-> 0],
               [pieceIndex |-> 2, row |-> 2, col |-> 0, rotation |-> 0],
               [pieceIndex |-> 3, row |-> 3, col |-> 0, rotation |-> 0] >> ])
  @@
  (3 :> [ gridWidth |-> 3, gridHeight |-> 2, pieceSize |-> 3,
          pieces |-> <<"bar3", "bar3">>,
          canonicalSolutions |->
            << [pieceIndex |-> 0, row |-> 0, col |-> 0, rotation |-> 0],
               [pieceIndex |-> 1, row |-> 1, col |-> 0, rotation |-> 0] >> ])
  @@
  (4 :> [ gridWidth |-> 3, gridHeight |-> 3, pieceSize |-> 3,
          pieces |-> <<"L3", "L3", "bar3">>,
          canonicalSolutions |->
            << [pieceIndex |-> 0, row |-> 0, col |-> 0, rotation |-> 0],
               [pieceIndex |-> 1, row |-> 0, col |-> 1, rotation |-> 2],
               [pieceIndex |-> 2, row |-> 2, col |-> 0, rotation |-> 0] >> ])
  @@
  (5 :> [ gridWidth |-> 6, gridHeight |-> 2, pieceSize |-> 3,
          pieces |-> <<"bar3", "bar3", "bar3", "bar3">>,
          canonicalSolutions |->
            << [pieceIndex |-> 0, row |-> 0, col |-> 0, rotation |-> 0],
               [pieceIndex |-> 1, row |-> 1, col |-> 0, rotation |-> 0],
               [pieceIndex |-> 2, row |-> 0, col |-> 3, rotation |-> 0],
               [pieceIndex |-> 3, row |-> 1, col |-> 3, rotation |-> 0] >> ])
  @@
  (6 :> [ gridWidth |-> 4, gridHeight |-> 2, pieceSize |-> 4,
          pieces |-> <<"bar4", "bar4">>,
          canonicalSolutions |->
            << [pieceIndex |-> 0, row |-> 0, col |-> 0, rotation |-> 0],
               [pieceIndex |-> 1, row |-> 1, col |-> 0, rotation |-> 0] >> ])
  @@
  (7 :> [ gridWidth |-> 4, gridHeight |-> 3, pieceSize |-> 4,
          pieces |-> <<"sq4", "bar4", "bar4">>,
          canonicalSolutions |->
            << [pieceIndex |-> 0, row |-> 0, col |-> 0, rotation |-> 0],
               [pieceIndex |-> 1, row |-> 0, col |-> 2, rotation |-> 1],
               [pieceIndex |-> 2, row |-> 2, col |-> 0, rotation |-> 0] >> ])
  @@
  (8 :> [ gridWidth |-> 4, gridHeight |-> 3, pieceSize |-> 4,
          pieces |-> <<"L4", "J4", "sq4">>,
          canonicalSolutions |->
            << [pieceIndex |-> 0, row |-> 0, col |-> 0, rotation |-> 0],
               [pieceIndex |-> 1, row |-> 0, col |-> 2, rotation |-> 0],
               [pieceIndex |-> 2, row |-> 0, col |-> 1, rotation |-> 0] >> ])
  @@
  (9 :> [ gridWidth |-> 4, gridHeight |-> 4, pieceSize |-> 4,
          pieces |-> <<"T4", "L4", "sq4", "S4">>,
          canonicalSolutions |->
            << [pieceIndex |-> 0, row |-> 0, col |-> 0, rotation |-> 0],
               [pieceIndex |-> 1, row |-> 1, col |-> 0, rotation |-> 1],
               [pieceIndex |-> 2, row |-> 2, col |-> 2, rotation |-> 0],
               [pieceIndex |-> 3, row |-> 0, col |-> 2, rotation |-> 1] >> ])
  @@
  (10 :> [ gridWidth |-> 5, gridHeight |-> 4, pieceSize |-> 4,
          pieces |-> <<"bar4", "L4", "T4", "sq4", "S4">>,
          canonicalSolutions |->
            << [pieceIndex |-> 0, row |-> 0, col |-> 0, rotation |-> 1],
               [pieceIndex |-> 1, row |-> 0, col |-> 1, rotation |-> 1],
               [pieceIndex |-> 2, row |-> 0, col |-> 2, rotation |-> 1],
               [pieceIndex |-> 3, row |-> 0, col |-> 3, rotation |-> 0],
               [pieceIndex |-> 4, row |-> 2, col |-> 1, rotation |-> 0] >> ])
  @@
  (11 :> [ gridWidth |-> 4, gridHeight |-> 5, pieceSize |-> 4,
          pieces |-> <<"Z4", "T4", "L4", "J4", "bar4">>,
          canonicalSolutions |->
            << [pieceIndex |-> 0, row |-> 0, col |-> 0, rotation |-> 0],
               [pieceIndex |-> 1, row |-> 0, col |-> 2, rotation |-> 1],
               [pieceIndex |-> 2, row |-> 2, col |-> 0, rotation |-> 1],
               [pieceIndex |-> 3, row |-> 2, col |-> 2, rotation |-> 3],
               [pieceIndex |-> 4, row |-> 4, col |-> 0, rotation |-> 0] >> ])
  @@
  (12 :> [ gridWidth |-> 5, gridHeight |-> 2, pieceSize |-> 5,
          pieces |-> <<"bar5", "bar5">>,
          canonicalSolutions |->
            << [pieceIndex |-> 0, row |-> 0, col |-> 0, rotation |-> 0],
               [pieceIndex |-> 1, row |-> 1, col |-> 0, rotation |-> 0] >> ])
  @@
  (13 :> [ gridWidth |-> 5, gridHeight |-> 3, pieceSize |-> 5,
          pieces |-> <<"L5", "bar5", "P5">>,
          canonicalSolutions |->
            << [pieceIndex |-> 0, row |-> 0, col |-> 0, rotation |-> 1],
               [pieceIndex |-> 1, row |-> 2, col |-> 0, rotation |-> 0],
               [pieceIndex |-> 2, row |-> 0, col |-> 1, rotation |-> 1] >> ])
  @@
  (14 :> [ gridWidth |-> 5, gridHeight |-> 4, pieceSize |-> 5,
          pieces |-> <<"U5", "T5", "L5", "bar5">>,
          canonicalSolutions |->
            << [pieceIndex |-> 0, row |-> 0, col |-> 0, rotation |-> 0],
               [pieceIndex |-> 1, row |-> 0, col |-> 3, rotation |-> 1],
               [pieceIndex |-> 2, row |-> 2, col |-> 0, rotation |-> 1],
               [pieceIndex |-> 3, row |-> 3, col |-> 0, rotation |-> 0] >> ])
  @@
  (15 :> [ gridWidth |-> 5, gridHeight |-> 5, pieceSize |-> 5,
          pieces |-> <<"F5", "Y5", "T5", "L5", "P5">>,
          canonicalSolutions |->
            << [pieceIndex |-> 0, row |-> 0, col |-> 0, rotation |-> 0],
               [pieceIndex |-> 1, row |-> 0, col |-> 3, rotation |-> 1],
               [pieceIndex |-> 2, row |-> 2, col |-> 0, rotation |-> 0],
               [pieceIndex |-> 3, row |-> 1, col |-> 3, rotation |-> 3],
               [pieceIndex |-> 4, row |-> 3, col |-> 1, rotation |-> 0] >> ])
  @@
  (16 :> [ gridWidth |-> 6, gridHeight |-> 5, pieceSize |-> 5,
          pieces |-> <<"bar5", "L5", "T5", "N5", "U5", "P5">>,
          canonicalSolutions |->
            << [pieceIndex |-> 0, row |-> 0, col |-> 0, rotation |-> 0],
               [pieceIndex |-> 1, row |-> 1, col |-> 0, rotation |-> 1],
               [pieceIndex |-> 2, row |-> 0, col |-> 5, rotation |-> 3],
               [pieceIndex |-> 3, row |-> 1, col |-> 3, rotation |-> 0],
               [pieceIndex |-> 4, row |-> 3, col |-> 0, rotation |-> 0],
               [pieceIndex |-> 5, row |-> 3, col |-> 3, rotation |-> 0] >> ])
  @@
  (17 :> [ gridWidth |-> 5, gridHeight |-> 6, pieceSize |-> 5,
          pieces |-> <<"F5", "J5", "Y5", "T5", "N5", "bar5">>,
          canonicalSolutions |->
            << [pieceIndex |-> 0, row |-> 0, col |-> 0, rotation |-> 0],
               [pieceIndex |-> 1, row |-> 0, col |-> 3, rotation |-> 0],
               [pieceIndex |-> 2, row |-> 2, col |-> 0, rotation |-> 0],
               [pieceIndex |-> 3, row |-> 2, col |-> 1, rotation |-> 1],
               [pieceIndex |-> 4, row |-> 2, col |-> 3, rotation |-> 3],
               [pieceIndex |-> 5, row |-> 5, col |-> 0, rotation |-> 0] >> ])

\* The levels the model plays: the trominoes on a 3-wide grid, LEVELS[3]
\* ("3x2 Bars") and LEVELS[4] ("3x3 L-shapes"), neighbours in the catalogue,
\* so that Prev / Next move between them.
LevelIds == {l \in DOMAIN LEVELS : LEVELS[l].pieceSize = 3 /\ LEVELS[l].gridWidth = 3}

\* the level shown first: the lowest played index, reached from level 0 by
\* pressing Next on untouched levels
FirstLevel == MinOf(LevelIds)

\* stable SVG width across all levels
MAX_GRID_W == MaxOf({LEVELS[l].gridWidth : l \in DOMAIN LEVELS})
STABLE_SVG_W == MAX_GRID_W * CELL + SUM_GUTTER * 2

(* ---------------- index.jsx: pure helpers ---------------- *)

RECURSIVE applyRotationLoop(_, _)
applyRotationLoop(cells, n) ==
  IF n = 0 THEN cells ELSE applyRotationLoop(rotateCW(cells), n - 1)

applyRotation(baseCells, rotation) == applyRotationLoop(baseCells, rotation % 4)

RECURSIVE canPlaceFrom(_, _, _, _, _, _, _, _)

\* canPlace gone wrong: returns true after looking at one cell only
canPlaceFromFirstCell(g, cells, i, row, col, w, h, selfId) ==
  IF i > Len(cells) THEN TRUE
  ELSE LET gr == row + cells[i][1]
           gc == col + cells[i][2]
       IN IF gr < 0 \/ gr >= h \/ gc < 0 \/ gc >= w THEN FALSE
          ELSE IF g[gr][gc] # Null /\ g[gr][gc] # selfId THEN FALSE
          ELSE TRUE

\* canPlace gone wrong: the occupancy test is missing
canPlaceFromNoOccupancy(g, cells, i, row, col, w, h, selfId) ==
  IF i > Len(cells) THEN TRUE
  ELSE LET gr == row + cells[i][1]
           gc == col + cells[i][2]
       IN IF gr < 0 \/ gr >= h \/ gc < 0 \/ gc >= w THEN FALSE
          ELSE canPlaceFrom(g, cells, i + 1, row, col, w, h, selfId)

\* canPlace gone wrong: a cell holding selfId counts as occupied
canPlaceFromNoSelf(g, cells, i, row, col, w, h, selfId) ==
  IF i > Len(cells) THEN TRUE
  ELSE LET gr == row + cells[i][1]
           gc == col + cells[i][2]
       IN IF gr < 0 \/ gr >= h \/ gc < 0 \/ gc >= w THEN FALSE
          ELSE IF g[gr][gc] # Null THEN FALSE
          ELSE canPlaceFrom(g, cells, i + 1, row, col, w, h, selfId)

\* the for-loop of canPlace from cell i on: the first failing cell returns false
canPlaceFrom(g, cells, i, row, col, w, h, selfId) ==
  IF i > Len(cells) THEN TRUE
  ELSE LET gr == row + cells[i][1]
           gc == col + cells[i][2]
       IN IF gr < 0 \/ gr >= h \/ gc < 0 \/ gc >= w THEN FALSE
          ELSE IF g[gr][gc] # Null /\ g[gr][gc] # selfId THEN FALSE
          ELSE canPlaceFrom(g, cells, i + 1, row, col, w, h, selfId)

canPlace(g, cells, row, col, w, h, selfId) ==
  canPlaceFrom(g, cells, 1, row, col, w, h, selfId)

\* the nested for-loops of checkCompletion over the rows and cells of the grid
RECURSIVE gridScan(_, _, _)
gridScan(g, r, c) ==
  IF r \notin DOMAIN g THEN TRUE
  ELSE IF c \notin DOMAIN g[r] THEN gridScan(g, r + 1, 0)
  ELSE IF g[r][c] = Null THEN FALSE
  ELSE gridScan(g, r, c + 1)

\* checkCompletion gone wrong: the grid is not scanned
checkCompletionPiecesOnly(g, ps) ==
  IF \E i \in DOMAIN ps : ~ps[i].placed THEN FALSE
  ELSE TRUE

checkCompletion(g, ps) ==
  IF \E i \in DOMAIN ps : ~ps[i].placed THEN FALSE
  ELSE gridScan(g, 0, 0)

\* shuffle(): a permutation of the piece indices picked by Math.random.  Two of
\* the n! outcomes are drawn, the one that keeps the order and the one that
\* reverses it (trayOrder is read by the tray layout only, by no handler).
Shuffles(n) == {[i \in 0..(n-1) |-> i], [i \in 0..(n-1) |-> n - 1 - i]}

initPieces(level, order) ==
  [i \in 0..(Len(level.pieces) - 1) |->
     [ id |-> i,
       baseShape |-> level.pieces[i + 1],
       rotation |-> 0,
       placed |-> FALSE,
       gridRow |-> 0,
       gridCol |-> 0,
       trayOrder |-> CHOOSE j \in DOMAIN order : order[j] = i ]]

makeGrid(w, h) == [r \in 0..(h-1) |-> [c \in 0..(w-1) |-> Null]]

\* applyRotation(shape, rotation) of every catalogue shape, computed once
EffectiveCells ==
  [name \in DOMAIN SHAPES |-> [k \in 0..3 |-> applyRotation(SHAPES[name], k)]]

\* applyRotation(piece.baseShape, piece.rotation)
getCells(piece) == EffectiveCells[piece.baseShape][piece.rotation % 4]

gridX(gridW) == (STABLE_SVG_W - gridW * CELL) \div 2

\* row = Math.round((svgY - PAD) / CELL - (maxR + 1) / 2), likewise col
snapToGrid(svgX, svgY, cells, gridW) ==
  LET maxR == MaxOf({cells[i][1] : i \in 1..Len(cells)})
      maxC == MaxOf({cells[i][2] : i \in 1..Len(cells)})
  IN [ row |-> RoundDiv(2 * (svgY - PAD) - (maxR + 1) * CELL, 2 * CELL),
       col |-> RoundDiv(2 * (svgX - gridX(gridW)) - (maxC + 1) * CELL, 2 * CELL) ]

(* ---------------- index.jsx: state-changing helpers ---------------- *)
\* Each returns the pieces, grid and completed flag it leaves behind.

\* newGrid[row + r][col + c] = pieceId for every cell of the piece
writeCells(g, cells, row, col, pieceId) ==
  [r \in DOMAIN g |-> [c \in DOMAIN g[r] |->
     IF \E i \in 1..Len(cells) : row + cells[i][1] = r /\ col + cells[i][2] = c
     THEN pieceId ELSE g[r][c]]]

placePiece(ps, g, comp, pieceId, row, col, gridW, gridH) ==
  IF pieceId \notin DOMAIN ps
  THEN [pieces |-> ps, grid |-> g, completed |-> comp]
  ELSE LET cells == getCells(ps[pieceId])
           ok == canPlace(g, cells, row, col, gridW, gridH, Null)
           newGrid == IF ok THEN writeCells(g, cells, row, col, pieceId) ELSE g
           newPieces == [ps EXCEPT ![pieceId] =
                           [@ EXCEPT !.placed = TRUE, !.gridRow = row, !.gridCol = col]]
       IN [ pieces |-> newPieces,
            grid |-> newGrid,
            completed |-> IF ok /\ checkCompletion(newGrid, newPieces) THEN TRUE ELSE comp ]

\* removePiece gone wrong: the completed flag survives the removal
removePieceKeepFlag(ps, g, comp, pieceId) ==
  IF pieceId \notin DOMAIN ps \/ ~ps[pieceId].placed
  THEN [pieces |-> ps, grid |-> g, completed |-> comp]
  ELSE [ pieces |-> [ps EXCEPT ![pieceId] = [@ EXCEPT !.placed = FALSE]],
         grid |-> [r \in DOMAIN g |-> [c \in DOMAIN g[r] |->
                     IF g[r][c] = pieceId THEN Null ELSE g[r][c]]],
         completed |-> comp ]

\* removePiece gone wrong: the piece's cells stay on the grid
removePieceKeepCells(ps, g, comp, pieceId) ==
  IF pieceId \notin DOMAIN ps \/ ~ps[pieceId].placed
  THEN [pieces |-> ps, grid |-> g, completed |-> comp]
  ELSE [ pieces |-> [ps EXCEPT ![pieceId] = [@ EXCEPT !.placed = FALSE]],
         grid |-> g,
         completed |-> FALSE ]

\* removePiece gone wrong: no test whether the piece is placed
removePieceUnguarded(ps, g, comp, pieceId) ==
  IF pieceId \notin DOMAIN ps
  THEN [pieces |-> ps, grid |-> g, completed |-> comp]
  ELSE [ pieces |-> [ps EXCEPT ![pieceId] = [@ EXCEPT !.placed = FALSE]],
         grid |-> [r \in DOMAIN g |-> [c \in DOMAIN g[r] |->
                     IF g[r][c] = pieceId THEN Null ELSE g[r][c]]],
         completed |-> FALSE ]

removePiece(ps, g, comp, pieceId) ==
  IF pieceId \notin DOMAIN ps \/ ~ps[pieceId].placed
  THEN [pieces |-> ps, grid |-> g, completed |-> comp]
  ELSE [ pieces |-> [ps EXCEPT ![pieceId] = [@ EXCEPT !.placed = FALSE]],
         grid |-> [r \in DOMAIN g |-> [c \in DOMAIN g[r] |->
                     IF g[r][c] = pieceId THEN Null ELSE g[r][c]]],
         completed |-> FALSE ]

\* the loop of showSolution over level.canonicalSolutions from entry i on
RECURSIVE solutionLoop(_, _, _, _)
solutionLoop(sols, i, ps, g) ==
  IF i > Len(sols) THEN [pieces |-> ps, grid |-> g]
  ELSE LET sol == sols[i]
           cells == applyRotation(SHAPES[ps[sol.pieceIndex].baseShape], sol.rotation)
       IN solutionLoop(sols, i + 1,
            [ps EXCEPT ![sol.pieceIndex] =
               [@ EXCEPT !.rotation = sol.rotation, !.placed = TRUE,
                         !.gridRow = sol.row, !.gridCol = sol.col]],
            writeCells(g, cells, sol.row, sol.col, sol.pieceIndex))

(* ---------------- component state ---------------- *)

level == LEVELS[levelIndex]
gridW == level.gridWidth
gridH == level.gridHeight

NullDrag == [ pieceId |-> Null, svgX |-> 0, svgY |-> 0,
              snapRow |-> Null, snapCol |-> Null, originalRotation |-> 0 ]

NullStart == [ pieceId |-> Null, lift |-> 0 ]

NoCache == [ present |-> FALSE, pieces |-> <<>>, grid |-> <<>>, completed |-> FALSE ]

\* pointer samples (SVG units): the centres of grid cells as seen through the
\* mouse lift, columns PointerCols and rows PointerRows of the grid area
PointerCols == {0, 1}
PointerRows == {0, 1, 2}
PointerXs == {gridX(gridW) + CELL * k + CELL \div 2 : k \in PointerCols}
PointerYs == {PAD + CELL * k + CELL \div 2 + DRAG_LIFT_MOUSE : k \in PointerRows}
PointerTypes == {"mouse", "touch"}
\* the pointer-down sample: the first sample of PointerXs / PointerYs (no
\* handler reads where the pointer went down, only where it moves to)
DownX == MinOf(PointerXs)
DownY == MinOf(PointerYs)

\* gestureRef as far as the handlers depend on it: how many samples the history
\* holds (counted up to MinTurnSamples) and whether a cooldown has been started
\* and not yet seen to be over
resetGesture == [points |-> 0, cooldown |-> FALSE]

\* a turn beyond TURN_THRESHOLD takes two turning angles (Math.atan2 is at most
\* pi), so four samples in the history
MinTurnSamples == 4

\* updateGesture(x, y): late says whether performance.now() has reached
\* cooldownUntil, rot is the verdict (1, -1 or 0) the turning angles give
updateGesture(g, late, rot) ==
  IF g.cooldown /\ ~late
  THEN [gesture |-> [points |-> 0, cooldown |-> TRUE], rot |-> 0]
  ELSE LET n == IF g.points < MinTurnSamples THEN g.points + 1 ELSE g.points
       IN IF n >= MinTurnSamples /\ rot # 0
          THEN [gesture |-> [points |-> 0, cooldown |-> TRUE], rot |-> rot]
          ELSE [gesture |-> [points |-> n, cooldown |-> FALSE], rot |-> 0]

Lift(pointerType) == IF pointerType = "touch" THEN DRAG_LIFT_TOUCH ELSE DRAG_LIFT_MOUSE

Init ==
  /\ levelIndex = FirstLevel
  /\ \E order \in Shuffles(Len(LEVELS[FirstLevel].pieces)) :
        pieces = initPieces(LEVELS[FirstLevel], order)
  /\ grid = makeGrid(LEVELS[FirstLevel].gridWidth, LEVELS[FirstLevel].gridHeight)
  /\ drag = NullDrag
  /\ dragStart = NullStart
  /\ completed = FALSE
  /\ levelCache = [l \in LevelIds |-> NoCache]
  /\ gesture = resetGesture
  /\ downRotation = 0
  /\ steps = 0
  /\ now = 0
  /\ seen = {}

\* one event delivered to a handler; the clock and the trail of pointer samples
\* are kept by GestureSpec only (in Spec they are the inputs late and turn)
Tick == steps < MaxSteps /\ steps' = steps + 1 /\ UNCHANGED <<now, seen>>

(* ---------------- handlers ---------------- *)

\* the tray renders a pointer-down handler on every unplaced piece that is not held
onTrayPieceDown(pieceId, x, y, pointerType) ==
  /\ Tick
  /\ pieceId \in DOMAIN pieces
  /\ ~pieces[pieceId].placed
  /\ drag.pieceId # pieceId
  /\ dragStart' = [pieceId |-> pieceId, lift |-> Lift(pointerType)]
  /\ drag' = [ pieceId |-> pieceId, svgX |-> x, svgY |-> y - Lift(pointerType),
               snapRow |-> Null, snapCol |-> Null,
               originalRotation |-> pieces[pieceId].rotation ]
  /\ gesture' = resetGesture
  /\ downRotation' = pieces[pieceId].rotation
  /\ UNCHANGED <<levelIndex, pieces, grid, completed, levelCache>>

\* the grid renders a pointer-down handler on every cell that holds a piece id
onGridPieceDown(pieceId, x, y, pointerType) ==
  /\ Tick
  /\ pieceId \in DOMAIN pieces
  /\ \E r \in DOMAIN grid : \E c \in DOMAIN grid[r] : grid[r][c] = pieceId
  /\ LET out == removePiece(pieces, grid, completed, pieceId)
     IN /\ pieces' = out.pieces
        /\ grid' = out.grid
        /\ completed' = out.completed
  /\ dragStart' = [pieceId |-> pieceId, lift |-> Lift(pointerType)]
  /\ drag' = [ pieceId |-> pieceId, svgX |-> x, svgY |-> y - Lift(pointerType),
               snapRow |-> Null, snapCol |-> Null,
               originalRotation |-> pieces[pieceId].rotation ]
  /\ gesture' = resetGesture
  /\ downRotation' = pieces[pieceId].rotation
  /\ UNCHANGED <<levelIndex, levelCache>>

\* a variant of movePiece that turns the piece clockwise whatever the sign of rot
movePieceOneWay(x, y, rot) ==
  /\ LET rotated ==
           IF rot # 0 /\ drag # NullDrag
           THEN [i \in DOMAIN pieces |->
                   IF i = drag.pieceId
                   THEN [pieces[i] EXCEPT !.rotation =
                           (pieces[i].rotation + 1) % 4]
                   ELSE pieces[i]]
           ELSE pieces
     IN /\ pieces' = rotated
        /\ IF dragStart.pieceId \notin DOMAIN rotated
           THEN drag' = drag
           ELSE LET cells == getCells(rotated[dragStart.pieceId])
                    liftedY == y - dragStart.lift
                    snap == snapToGrid(x, liftedY, cells, gridW)
                    valid == canPlace(grid, cells, snap.row, snap.col, gridW, gridH, Null)
                IN drag' = [ pieceId |-> dragStart.pieceId,
                             svgX |-> x,
                             svgY |-> liftedY,
                             snapRow |-> IF valid THEN snap.row ELSE Null,
                             snapCol |-> IF valid THEN snap.col ELSE Null,
                             originalRotation |->
                               IF drag # NullDrag THEN drag.originalRotation ELSE 0 ]
  /\ UNCHANGED <<levelIndex, grid, dragStart, completed, levelCache, downRotation>>

\* onPointerMove once updateGesture has returned rot: the quarter-turn of the
\* dragged piece and the new drag record
movePiece(x, y, rot) ==
  /\ LET rotated ==
           IF rot # 0 /\ drag # NullDrag
           THEN [i \in DOMAIN pieces |->
                   IF i = drag.pieceId
                   THEN [pieces[i] EXCEPT !.rotation =
                           (pieces[i].rotation + (IF rot > 0 THEN 1 ELSE 3)) % 4]
                   ELSE pieces[i]]
           ELSE pieces
     IN /\ pieces' = rotated
        /\ IF dragStart.pieceId \notin DOMAIN rotated
           THEN drag' = drag
           ELSE LET cells == getCells(rotated[dragStart.pieceId])
                    liftedY == y - dragStart.lift
                    snap == snapToGrid(x, liftedY, cells, gridW)
                    valid == canPlace(grid, cells, snap.row, snap.col, gridW, gridH, Null)
                IN drag' = [ pieceId |-> dragStart.pieceId,
                             svgX |-> x,
                             svgY |-> liftedY,
                             snapRow |-> IF valid THEN snap.row ELSE Null,
                             snapCol |-> IF valid THEN snap.col ELSE Null,
                             originalRotation |->
                               IF drag # NullDrag THEN drag.originalRotation ELSE 0 ]
  /\ UNCHANGED <<levelIndex, grid, dragStart, completed, levelCache, downRotation>>

\* one pointer-move sample at (x, y); late and turn are what the clock and the
\* turning angles of the sample give updateGesture
onPointerMove(x, y, late, turn) ==
  /\ Tick
  /\ dragStart # NullStart
  /\ LET upd == updateGesture(gesture, late, turn)
     IN /\ gesture' = upd.gesture
        /\ movePiece(x, y, upd.rot)

onPointerUp ==
  /\ Tick
  /\ dragStart # NullStart
  /\ dragStart' = NullStart
  /\ IF drag # NullDrag /\ drag.snapRow # Null /\ drag.snapCol # Null
     THEN LET out == placePiece(pieces, grid, completed, dragStart.pieceId,
                                drag.snapRow, drag.snapCol, gridW, gridH)
          IN /\ pieces' = out.pieces
             /\ grid' = out.grid
             /\ completed' = out.completed
     ELSE IF drag # NullDrag
     THEN /\ pieces' = [i \in DOMAIN pieces |->
                          IF i = dragStart.pieceId
                          THEN [pieces[i] EXCEPT !.rotation = drag.originalRotation]
                          ELSE pieces[i]]
          /\ UNCHANGED <<grid, completed>>
     ELSE UNCHANGED <<pieces, grid, completed>>
  /\ drag' = NullDrag
  /\ gesture' = resetGesture
  /\ UNCHANGED <<levelIndex, levelCache, downRotation>>

\* a pointercancel event while a pointer is down on a piece: the svg element
\* has onPointerDown, onPointerMove and onPointerUp and no onPointerCancel, so
\* no handler runs and the component state stays as it is
onPointerCancel ==
  /\ Tick
  /\ dragStart # NullStart
  /\ UNCHANGED <<levelIndex, pieces, grid, drag, dragStart, completed, levelCache,
                 gesture, downRotation>>

\* goToLevel gone wrong: the level being left is not saved
goToLevelNoSave(idx, order) ==
  /\ Tick
  /\ idx \in LevelIds
  /\ idx \in {levelIndex - 1, levelIndex + 1}
  /\ order \in Shuffles(Len(LEVELS[idx].pieces))
  /\ LET cached == levelCache[idx]
     IN /\ levelCache' = levelCache
        /\ levelIndex' = idx
        /\ IF cached.present
           THEN /\ pieces' = cached.pieces
                /\ grid' = cached.grid
                /\ completed' = cached.completed
           ELSE /\ pieces' = initPieces(LEVELS[idx], order)
                /\ grid' = makeGrid(LEVELS[idx].gridWidth, LEVELS[idx].gridHeight)
                /\ completed' = FALSE
  /\ drag' = NullDrag
  /\ UNCHANGED <<dragStart, gesture, downRotation>>

\* Prev / Next: idx is levelIndex - 1 or levelIndex + 1; order is the shuffle
\* drawn by initPieces when the level is not cached
goToLevel(idx, order) ==
  /\ Tick
  /\ idx \in LevelIds
  /\ idx \in {levelIndex - 1, levelIndex + 1}
  /\ order \in Shuffles(Len(LEVELS[idx].pieces))
  /\ LET saved == [levelCache EXCEPT ![levelIndex] =
                     [ present |-> TRUE, pieces |-> pieces, grid |-> grid,
                       completed |-> completed ]]
         cached == saved[idx]
     IN /\ levelCache' = saved
        /\ levelIndex' = idx
        /\ IF cached.present
           THEN /\ pieces' = cached.pieces
                /\ grid' = cached.grid
                /\ completed' = cached.completed
           ELSE /\ pieces' = initPieces(LEVELS[idx], order)
                /\ grid' = makeGrid(LEVELS[idx].gridWidth, LEVELS[idx].gridHeight)
                /\ completed' = FALSE
  /\ drag' = NullDrag
  /\ UNCHANGED <<dragStart, gesture, downRotation>>

\* resetLevel gone wrong: the completed flag survives the reset
resetLevelStale(order) ==
  /\ Tick
  /\ order \in Shuffles(Len(level.pieces))
  /\ levelCache' = [levelCache EXCEPT ![levelIndex] = NoCache]
  /\ pieces' = initPieces(level, order)
  /\ grid' = makeGrid(gridW, gridH)
  /\ drag' = NullDrag
  /\ UNCHANGED <<levelIndex, dragStart, gesture, downRotation, completed>>

resetLevel(order) ==
  /\ Tick
  /\ order \in Shuffles(Len(level.pieces))
  /\ levelCache' = [levelCache EXCEPT ![levelIndex] = NoCache]
  /\ pieces' = initPieces(level, order)
  /\ grid' = makeGrid(gridW, gridH)
  /\ drag' = NullDrag
  /\ completed' = FALSE
  /\ UNCHANGED <<levelIndex, dragStart, gesture, downRotation>>

showSolution ==
  /\ Tick
  /\ LET out == solutionLoop(level.canonicalSolutions, 1, pieces, makeGrid(gridW, gridH))
     IN /\ pieces' = out.pieces
        /\ grid' = out.grid
  /\ drag' = NullDrag
  /\ completed' = TRUE
  /\ UNCHANGED <<levelIndex, dragStart, levelCache, gesture, downRotation>>

TrayDown == \E id \in DOMAIN pieces, t \in PointerTypes : onTrayPieceDown(id, DownX, DownY, t)
GridDown == \E id \in DOMAIN pieces, t \in PointerTypes : onGridPieceDown(id, DownX, DownY, t)
\* the clock matters only while a cooldown runs, the turning angles only once
\* the history is long enough
Move == \E x \in PointerXs, y \in PointerYs :
        \E late \in (IF gesture.cooldown THEN BOOLEAN ELSE {TRUE}) :
        \E turn \in (IF gesture.points + 1 >= MinTurnSamples THEN {-1, 0, 1} ELSE {0}) :
           onPointerMove(x, y, late, turn)
Up == onPointerUp
Cancel == onPointerCancel
Nav == \E idx \in LevelIds : \E order \in Shuffles(Len(LEVELS[idx].pieces)) :
          goToLevel(idx, order)
Reset == \E order \in Shuffles(Len(level.pieces)) : resetLevel(order)
Solve == showSolution

Next == TrayDown \/ GridDown \/ Move \/ Up \/ Cancel \/ Nav \/ Reset \/ Solve

Spec == Init /\ [][Next]_vars

(* ---------------- play on a level left half solved ---------------- *)

(* The component as in Spec, taken up three events into a session: Show
   Solution on the first level, pointer-down on piece 1 on the grid and
   pointer-up away from the grid. Piece 0 lies where the canonical solution
   has it, piece 1 is back in the tray. *)
ReturnInit ==
  /\ levelIndex = FirstLevel
  /\ \E order \in Shuffles(Len(LEVELS[FirstLevel].pieces)) :
        LET solved == solutionLoop(LEVELS[FirstLevel].canonicalSolutions, 1,
                                   initPieces(LEVELS[FirstLevel], order),
                                   makeGrid(LEVELS[FirstLevel].gridWidth,
                                            LEVELS[FirstLevel].gridHeight))
            lifted == removePiece(solved.pieces, solved.grid, TRUE, 1)
        IN /\ pieces = lifted.pieces
           /\ grid = lifted.grid
           /\ completed = lifted.completed
  /\ drag = NullDrag
  /\ dragStart = NullStart
  /\ levelCache = [l \in LevelIds |-> NoCache]
  /\ gesture = resetGesture
  /\ downRotation = 0
  /\ steps = 0
  /\ now = 0
  /\ seen = {}

ReturnSpec == ReturnInit /\ [][Next]_vars

(* ---------------- the gesture recogniser in full ---------------- *)
(* GestureSpec follows one drag of a tray piece sample by sample, with     *)
(* gestureRef as the source keeps it.  Samples lie on the corners of one   *)
(* grid cell, so every displacement points along one of the eight compass  *)
(* directions and every turning angle is a multiple of pi / 4; angles are  *)
(* integers in that unit (the doubles Math.atan2 returns there add up      *)
(* without rounding across the threshold).                                 *)

\* number of pointer-move samples of the drag
MaxSamples == 8

\* Math.PI in units of pi / 4
PiUnits == 4
\* the threshold gone wrong: three quarters of pi
TURN_THRESHOLD_Low == PiUnits - 1

TURN_THRESHOLD == PiUnits
GESTURE_COOLDOWN == 400

\* gestureRef.current as resetGesture() leaves it
emptyGestureRef == [points |-> <<>>, totalTurn |-> 0, cooldownUntil |-> 0]

\* the product p * q is the IEEE 754 zero with the sign bit set; a zero among
\* p and q is +0, being the difference of two equal coordinates
isNegZero(p, q) == (p = 0 /\ q < 0) \/ (p < 0 /\ q = 0)

\* Math.atan2(cross, dot) in units of pi / 4; negZero says that cross is -0
atan2(cross, negZero, dot) ==
  CASE cross = 0 /\ dot > 0 -> 0
    [] cross = 0 /\ dot < 0 -> IF negZero THEN -PiUnits ELSE PiUnits
    [] cross > 0 /\ dot = cross -> 1
    [] cross > 0 /\ dot = 0 -> 2
    [] cross > 0 /\ dot = -cross -> 3
    [] cross < 0 /\ dot = -cross -> -1
    [] cross < 0 /\ dot = 0 -> -2
    [] cross < 0 /\ dot = cross -> -3

\* the signed turning angle between the displacements p0 -> p1 and p1 -> p2
turnAngle(p0, p1, p2) ==
  LET v1x == p1[1] - p0[1]
      v1y == p1[2] - p0[2]
      v2x == p2[1] - p1[1]
      v2y == p2[2] - p1[2]
      cross == v1x * v2y - v1y * v2x
      negZero == /\ v1x * v2y = 0 /\ v1y * v2x = 0
                 /\ isNegZero(v1x, v2y) /\ ~isNegZero(v1y, v2x)
      dot == v1x * v2x + v1y * v2y
  IN atan2(cross, negZero, dot)

\* a variant of updateGestureAt that has no cooldown test
updateGestureAtNoCooldown(g, x, y, t) ==
  LET pushed == Append(g.points, <<x, y>>)
      pts == IF Len(pushed) > 3 THEN SubSeq(pushed, Len(pushed) - 2, Len(pushed))
             ELSE pushed
  IN IF Len(pushed) < 3 \/ pts[Len(pts) - 1] = pts[Len(pts) - 2] \/ pts[Len(pts)] = pts[Len(pts) - 1]
     THEN [gesture |-> [g EXCEPT !.points = pts], rot |-> 0]
     ELSE LET total == g.totalTurn + turnAngle(pts[1], pts[2], pts[3])
          IN IF total > TURN_THRESHOLD
             THEN [gesture |-> [points |-> <<>>, totalTurn |-> 0,
                                cooldownUntil |-> t + GESTURE_COOLDOWN], rot |-> 1]
             ELSE IF total < -TURN_THRESHOLD
             THEN [gesture |-> [points |-> <<>>, totalTurn |-> 0,
                                cooldownUntil |-> t + GESTURE_COOLDOWN], rot |-> -1]
             ELSE [gesture |-> [g EXCEPT !.points = pts, !.totalTurn = total], rot |-> 0]

\* updateGesture(x, y) run when performance.now() is t: the gestureRef it
\* leaves and the value it returns.  Of the history only the last three points
\* and whether there are three are read, so the three newest are kept.
updateGestureAt(g, x, y, t) ==
  IF t < g.cooldownUntil
  THEN [gesture |-> [g EXCEPT !.points = <<>>], rot |-> 0]
  ELSE LET pushed == Append(g.points, <<x, y>>)
           pts == IF Len(pushed) > 3 THEN SubSeq(pushed, Len(pushed) - 2, Len(pushed))
                  ELSE pushed
       IN IF Len(pushed) < 3
          THEN [gesture |-> [g EXCEPT !.points = pts], rot |-> 0]
          ELSE LET p0 == pts[1]
                   p1 == pts[2]
                   p2 == pts[3]
               IN IF p1 = p0 \/ p2 = p1
                  THEN [gesture |-> [g EXCEPT !.points = pts], rot |-> 0]
                  ELSE LET total == g.totalTurn + turnAngle(p0, p1, p2)
                       IN IF total > TURN_THRESHOLD
                          THEN [gesture |-> [points |-> <<>>, totalTurn |-> 0,
                                             cooldownUntil |-> t + GESTURE_COOLDOWN],
                                rot |-> 1]
                          ELSE IF total < -TURN_THRESHOLD
                          THEN [gesture |-> [points |-> <<>>, totalTurn |-> 0,
                                             cooldownUntil |-> t + GESTURE_COOLDOWN],
                                rot |-> -1]
                          ELSE [gesture |-> [g EXCEPT !.points = pts, !.totalTurn = total],
                                rot |-> 0]

\* the state onTrayPieceDown leaves on the first level: piece 0 lifted by the
\* mouse at the pointer-down sample
GestureInit ==
  /\ levelIndex = FirstLevel
  /\ pieces = initPieces(LEVELS[FirstLevel], [i \in 0..(Len(LEVELS[FirstLevel].pieces) - 1) |-> i])
  /\ grid = makeGrid(LEVELS[FirstLevel].gridWidth, LEVELS[FirstLevel].gridHeight)
  /\ dragStart = [pieceId |-> 0, lift |-> Lift("mouse")]
  /\ drag = [ pieceId |-> 0, svgX |-> DownX, svgY |-> DownY - Lift("mouse"),
              snapRow |-> Null, snapCol |-> Null, originalRotation |-> 0 ]
  /\ completed = FALSE
  /\ levelCache = [l \in LevelIds |-> NoCache]
  /\ gesture = emptyGestureRef
  /\ downRotation = 0
  /\ steps = 0
  /\ now = 0
  /\ seen = {}

\* onPointerMove for the sample (x, y) at time t
onPointerMoveAt(x, y, t) ==
  /\ steps < MaxSamples
  /\ steps' = steps + 1
  /\ dragStart # NullStart
  /\ now' = t
  /\ seen' = seen \cup {<<x, y>>}
  /\ LET upd == updateGestureAt(gesture, x, y, t)
     IN /\ gesture' = upd.gesture
        /\ movePiece(x, y, upd.rot)

\* the samples: the corners of the cell at the pointer-down sample, an eighth
\* of a cooldown or a whole one after the sample before
GestureYs == {y \in PointerYs : y <= DownY + CELL}
SampleGaps == {GESTURE_COOLDOWN \div 8, GESTURE_COOLDOWN}

Sample == \E x \in PointerXs, y \in GestureYs, dt \in SampleGaps : onPointerMoveAt(x, y, now + dt)

GestureNext == Sample

GestureSpec == GestureInit /\ [][GestureNext]_vars

(* ---------------- the tray layout ---------------- *)

(* Lengths of the tray layout are kept in half pixels, so that the halves the
   centring produces stay integers; TRAY_SCALE, 0.55, is the fraction 11/20.
   In doubles 5 * CELL * 0.55 is 110.00000000000001: on no tray of the
   catalogue does the excess decide the wrap comparison. *)
TRAY_GAP == 20
TRAY_ROW_H == 55
TRAY_SCALE_NUM == 11
TRAY_SCALE_DEN == 20
GAP == 10
TRAY_PAD_Y == 8

\* v * TRAY_SCALE, in half pixels
trayScaled(v) == (2 * v * TRAY_SCALE_NUM) \div TRAY_SCALE_DEN

\* a variant of trayPieces that lists the unplaced pieces by ascending id
trayPiecesById(ps) ==
  LET U == {i \in DOMAIN ps : ~ps[i].placed}
  IN [k \in 1..Cardinality(U) |->
        CHOOSE i \in U : Cardinality({j \in U : j < i}) = k - 1]

\* the unplaced pieces by ascending trayOrder (ids)
trayPieces(ps) ==
  LET U == {i \in DOMAIN ps : ~ps[i].placed}
  IN [k \in 1..Cardinality(U) |->
        CHOOSE i \in U :
          Cardinality({j \in U : ps[j].trayOrder < ps[i].trayOrder}) = k - 1]

\* a variant of trayFootprint that sizes a piece by its rotated cells
trayFootprintRotated(piece) == Range(getCells(piece))

\* const base = piece.baseShape: the cells that size a piece in the tray
trayFootprint(piece) == Range(SHAPES[piece.baseShape])

trayY(gh) == PAD + gh * CELL + TRAY_GAP

\* gridX + (gridW * CELL) / 2, in half pixels
gridCenterX(gw) == 2 * gridX(gw) + gw * CELL

\* 2 * Math.min(gridCenterX, svgW - gridCenterX) - PAD, in half pixels
trayMaxW(gw) ==
  2 * MinOf({gridCenterX(gw), 2 * STABLE_SVG_W - gridCenterX(gw)}) - 2 * PAD

\* a variant of rowItemsLoop that forgets the gap when it accumulates x
RECURSIVE rowItemsLoopNoGap(_, _, _, _, _, _)
rowItemsLoopNoGap(ps, seq, i, x, rowItems, maxW) ==
  IF i > Len(seq) THEN rowItems
  ELSE LET base == trayFootprint(ps[seq[i]])
           pw == trayScaled((MaxOf({c[2] : c \in base}) + 1) * CELL)
           ph == trayScaled((MaxOf({c[1] : c \in base}) + 1) * CELL)
           wrap == x > 0 /\ x + pw > maxW
           rows == IF wrap THEN Append(rowItems, <<>>) ELSE rowItems
           x0 == IF wrap THEN 0 ELSE x
       IN rowItemsLoopNoGap(ps, seq, i + 1, x0 + pw,
            [rows EXCEPT ![Len(rows)] = Append(@, [piece |-> seq[i], pw |-> pw, ph |-> ph])],
            maxW)

\* first pass of trayLayout from the i-th tray piece on: x is the width used
\* in the last row of rowItems
RECURSIVE rowItemsLoop(_, _, _, _, _, _)
rowItemsLoop(ps, seq, i, x, rowItems, maxW) ==
  IF i > Len(seq) THEN rowItems
  ELSE LET base == trayFootprint(ps[seq[i]])
           pw == trayScaled((MaxOf({c[2] : c \in base}) + 1) * CELL)
           ph == trayScaled((MaxOf({c[1] : c \in base}) + 1) * CELL)
           wrap == x > 0 /\ x + pw > maxW
           rows == IF wrap THEN Append(rowItems, <<>>) ELSE rowItems
           x0 == IF wrap THEN 0 ELSE x
       IN rowItemsLoop(ps, seq, i + 1, x0 + pw + 2 * GAP,
            [rows EXCEPT ![Len(rows)] = Append(@, [piece |-> seq[i], pw |-> pw, ph |-> ph])],
            maxW)

rowItems(ps, gw) == rowItemsLoop(ps, trayPieces(ps), 1, 0, << <<>> >>, trayMaxW(gw))

\* the sum of the pw of the first n items of a row
RECURSIVE sumPw(_, _)
sumPw(row, n) == IF n = 0 THEN 0 ELSE sumPw(row, n - 1) + row[n].pw

\* row.reduce((s, it) => s + it.pw, 0) + (row.length - 1) * GAP
totalW(row) == sumPw(row, Len(row)) + (Len(row) - 1) * 2 * GAP

\* Math.max(...row.map(it => it.ph), TRAY_ROW_H)
rowH(row) == MaxOf({row[k].ph : k \in 1..Len(row)} \cup {2 * TRAY_ROW_H})

\* second pass of trayLayout from the r-th row on, its top at curY
RECURSIVE positionsLoop(_, _, _, _, _)
positionsLoop(rows, r, curY, positions, gw) ==
  IF r > Len(rows) THEN [positions |-> positions, curY |-> curY]
  ELSE LET row == rows[r]
           curX == MaxOf({PAD, gridCenterX(gw) - totalW(row) \div 2})
           placedRow ==
             [k \in 1..Len(row) |->
                [ piece |-> row[k].piece,
                  x |-> curX + sumPw(row, k - 1) + (k - 1) * 2 * GAP,
                  y |-> curY + (rowH(row) - row[k].ph) \div 2,
                  w |-> row[k].pw ]]
       IN positionsLoop(rows, r + 1, curY + rowH(row) + 2 * TRAY_PAD_Y,
                        positions \o placedRow, gw)

trayLayout(ps, gw, gh) ==
  LET out == positionsLoop(rowItems(ps, gw), 1, 2 * trayY(gh) + 2 * TRAY_PAD_Y, <<>>, gw)
  IN [ positions |-> out.positions,
       trayH |-> out.curY - 2 * trayY(gh) + 2 * TRAY_PAD_Y ]

(* ---------------- the catalogue, level by level ---------------- *)

(* Every level of the catalogue loaded as goToLevel loads an unvisited level,
   and the steps that turn pieces, fill the grid and empty it again, applied
   without a pointer: the quarter turn onPointerMove gives a piece,
   showSolution, and removePiece. *)
CatalogInit ==
  /\ levelIndex \in DOMAIN LEVELS
  /\ \E order \in Shuffles(Len(level.pieces)) : pieces = initPieces(level, order)
  /\ grid = makeGrid(gridW, gridH)
  /\ drag = NullDrag
  /\ dragStart = NullStart
  /\ completed = FALSE
  /\ levelCache = [l \in LevelIds |-> NoCache]
  /\ gesture = resetGesture
  /\ downRotation = 0
  /\ steps = 0
  /\ now = 0
  /\ seen = {}

\* the quarter turn of onPointerMove (rot > 0) on the unplaced piece id
rotatePiece(id) ==
  /\ steps < MaxTurns
  /\ Tick
  /\ ~pieces[id].placed
  /\ pieces' = [i \in DOMAIN pieces |->
                  IF i = id
                  THEN [pieces[i] EXCEPT !.rotation = (pieces[i].rotation + 1) % 4]
                  ELSE pieces[i]]
  /\ UNCHANGED <<levelIndex, grid, drag, dragStart, completed, levelCache,
                 gesture, downRotation>>

\* removePiece(id) on a piece on the grid
liftPiece(id) ==
  /\ steps < MaxTurns
  /\ Tick
  /\ pieces[id].placed
  /\ LET out == removePiece(pieces, grid, completed, id)
     IN /\ pieces' = out.pieces
        /\ grid' = out.grid
        /\ completed' = out.completed
  /\ UNCHANGED <<levelIndex, drag, dragStart, levelCache, gesture, downRotation>>

Turn == \E id \in DOMAIN pieces : rotatePiece(id)
LiftOff == \E id \in DOMAIN pieces : liftPiece(id)

CatalogNext == Turn \/ LiftOff \/ Solve

CatalogSpec == CatalogInit /\ [][CatalogNext]_vars

(* ---------------- the pointer history at full length ---------------- *)

\* number of samples of one long drag, and the length of the history from
\* which the drag may leave its straight line
MaxDrag == 32
TwistFrom == 26

\* if (g.points.length > 30) g.points.splice(0, g.points.length - 25)
HISTORY_KEEP == 25

\* the history gone wrong: trimmed one sample late
HISTORY_MAX_High == HISTORY_KEEP + 6

HISTORY_MAX == 30

\* updateGesture(x, y) run when performance.now() is t, the history kept as
\* the code keeps it
updateGestureHistory(g, x, y, t) ==
  IF t < g.cooldownUntil
  THEN [gesture |-> [g EXCEPT !.points = <<>>], rot |-> 0]
  ELSE LET pushed == Append(g.points, <<x, y>>)
           pts == IF Len(pushed) > HISTORY_MAX
                  THEN SubSeq(pushed, Len(pushed) - HISTORY_KEEP + 1, Len(pushed))
                  ELSE pushed
           n == Len(pts)
       IN IF n < 3
          THEN [gesture |-> [g EXCEPT !.points = pts], rot |-> 0]
          ELSE IF pts[n - 1] = pts[n - 2] \/ pts[n] = pts[n - 1]
          THEN [gesture |-> [g EXCEPT !.points = pts], rot |-> 0]
          ELSE LET total == g.totalTurn + turnAngle(pts[n - 2], pts[n - 1], pts[n])
               IN IF total > TURN_THRESHOLD
                  THEN [gesture |-> [points |-> <<>>, totalTurn |-> 0,
                                     cooldownUntil |-> t + GESTURE_COOLDOWN],
                        rot |-> 1]
                  ELSE IF total < -TURN_THRESHOLD
                  THEN [gesture |-> [points |-> <<>>, totalTurn |-> 0,
                                     cooldownUntil |-> t + GESTURE_COOLDOWN],
                        rot |-> -1]
                  ELSE [gesture |-> [g EXCEPT !.points = pts, !.totalTurn = total],
                        rot |-> 0]

\* onPointerMove for the sample (x, y) at time t of a long drag
onPointerMoveLong(x, y, t) ==
  /\ steps < MaxDrag
  /\ steps' = steps + 1
  /\ dragStart # NullStart
  /\ now' = t
  /\ seen' = seen \cup {<<x, y>>}
  /\ LET upd == updateGestureHistory(gesture, x, y, t)
     IN /\ gesture' = upd.gesture
        /\ movePiece(x, y, upd.rot)

\* samples come an eighth of a cell and an eighth of a cooldown apart
HistoryStep == CELL \div 8
HistoryGap == GESTURE_COOLDOWN \div 8

\* where the pointer is: the drag record holds the sample less the lift
PointerNow == <<drag.svgX, drag.svgY + dragStart.lift>>

\* the drag goes on to the right
Glide == onPointerMoveLong(PointerNow[1] + HistoryStep, PointerNow[2], now + HistoryGap)

\* once the history is long, the drag may go down, up or back as well
Twist ==
  /\ Len(gesture.points) >= TwistFrom
  /\ \E d \in {<<0, HistoryStep>>, <<0, 0 - HistoryStep>>, <<0 - HistoryStep, 0>>} :
        onPointerMoveLong(PointerNow[1] + d[1], PointerNow[2] + d[2], now + HistoryGap)

HistoryNext == Glide \/ Twist

\* from the state onTrayPieceDown leaves, as GestureSpec
HistorySpec == GestureInit /\ [][HistoryNext]_vars

(* ================================================================ *)
(*  Properties                                                        *)
(* ================================================================ *)

PieceIdsNow == DOMAIN pieces

\* the grid cells a piece covers: its effective cell-set at its recorded origin
CellsAt(p) ==
  LET cells == getCells(p)
  IN {<<p.gridRow + cells[i][1], p.gridCol + cells[i][2]>> : i \in 1..Len(cells)}

\* the grid cells holding id
Owned(g, id) == {<<r, c>> \in (DOMAIN g) \X (0..(MAX_GRID_W - 1)) : c \in DOMAIN g[r] /\ g[r][c] = id}

\* origins tried by the properties that quantify over placements: one cell
\* beyond the grid on every side
Rows == (-1)..gridH
Cols == (-1)..gridW

(* C1: each grid cell holds at most one piece id, and the cells covered by
   any two distinct placed pieces (effective cell-set of the current rotation
   at the recorded origin) are disjoint, in every reachable state. *)
C1_PlacedPiecesDisjoint ==
  /\ \A r \in DOMAIN grid : \A c \in DOMAIN grid[r] : grid[r][c] \in PieceIdsNow \cup {Null}
  /\ \A p, q \in PieceIdsNow :
        (p # q /\ pieces[p].placed /\ pieces[q].placed)
          => CellsAt(pieces[p]) \cap CellsAt(pieces[q]) = {}

\* showSolution on the untouched level l: the pieces and grid it leaves
Solved(l) ==
  solutionLoop(LEVELS[l].canonicalSolutions, 1,
               initPieces(LEVELS[l], [i \in 0..(Len(LEVELS[l].pieces) - 1) |-> i]),
               makeGrid(LEVELS[l].gridWidth, LEVELS[l].gridHeight))

\* the flag showSolution stores (true) is what checkCompletion derives, on
\* every level of the catalogue
SolutionsComplete ==
  \A l \in DOMAIN LEVELS : checkCompletion(Solved(l).grid, Solved(l).pieces)

(* C2: the stored completed flag equals checkCompletion(grid, pieces) in
   every reachable state, for the level on screen and for every level kept
   in the level cache; the canonical solution of every level of the
   catalogue is complete by checkCompletion. *)
C2_CompletedIsDerived ==
  /\ completed = checkCompletion(grid, pieces)
  /\ \A l \in LevelIds :
        levelCache[l].present =>
          levelCache[l].completed = checkCompletion(levelCache[l].grid, levelCache[l].pieces)
  /\ SolutionsComplete

\* a solved level waits in the cache while the level on screen, entered with
\* the flag cleared, has one piece dropped on its grid by a pointer-up
C2_Witness ==
  /\ ~completed
  /\ dragStart = NullStart
  /\ \E l \in LevelIds \ {levelIndex} :
        /\ levelCache[l].present
        /\ levelCache[l].completed
        /\ checkCompletion(levelCache[l].grid, levelCache[l].pieces)
  /\ \E i \in PieceIdsNow : pieces[i].placed /\ Owned(grid, i) = CellsAt(pieces[i])

\* the grid with one cell emptied
EmptiedAt(g, r0, c0) ==
  [r \in DOMAIN g |-> [c \in DOMAIN g[r] |-> IF r = r0 /\ c = c0 THEN Null ELSE g[r][c]]]

\* the grids and piece lists checkCompletion is tried on: the reachable ones,
\* every grid with one more cell empty or filled, every piece list with one
\* placed flag flipped
GridInputs ==
  {grid} \cup {EmptiedAt(grid, r, c) : r \in DOMAIN grid, c \in 0..(gridW - 1)}
         \cup {writeCells(grid, << <<0, 0>> >>, r, c, 0) : r \in DOMAIN grid, c \in 0..(gridW - 1)}
PiecesInputs ==
  {pieces} \cup {[pieces EXCEPT ![i] = [@ EXCEPT !.placed = ~@]] : i \in PieceIdsNow}

(* C3: checkCompletion(grid, pieces) is true if and only if no piece is
   unplaced and no grid cell is null. *)
C3_CheckCompletionIff ==
  \A g \in GridInputs : \A ps \in PiecesInputs :
     checkCompletion(g, ps) <=>
       /\ \A i \in DOMAIN ps : ps[i].placed
       /\ \A r \in DOMAIN g : \A c \in DOMAIN g[r] : g[r][c] # Null

\* a full grid with every piece placed: emptying one cell, or unplacing one
\* piece, are then among the inputs tried
C3_Witness ==
  /\ \A i \in PieceIdsNow : pieces[i].placed
  /\ \A r \in DOMAIN grid : \A c \in DOMAIN grid[r] : grid[r][c] # Null
  /\ checkCompletion(grid, pieces)
  /\ \E r \in DOMAIN grid : \E c \in DOMAIN grid[r] :
        ~checkCompletion(EmptiedAt(grid, r, c), pieces)
  /\ \E i \in PieceIdsNow :
        ~checkCompletion(grid, [pieces EXCEPT ![i] = [@ EXCEPT !.placed = FALSE]])

\* this step is removePiece acting on a placed piece (pointer-down on a grid piece)
RemoveStep ==
  \E id \in PieceIdsNow, t \in PointerTypes :
     pieces[id].placed /\ onGridPieceDown(id, DownX, DownY, t)

(* C4: from any state in which the level is complete, removing a placed
   piece makes checkCompletion and the completed flag false in the next
   state. *)
C4_RemoveEndsCompletion ==
  [][ (checkCompletion(grid, pieces) /\ completed /\ RemoveStep)
        => (~checkCompletion(grid', pieces') /\ ~completed') ]_vars

\* a piece just picked up from a grid that the other pieces still fill
C4_Witness ==
  /\ ~completed
  /\ dragStart # NullStart
  /\ dragStart.pieceId \in PieceIdsNow
  /\ drag.snapRow = Null
  /\ \A i \in PieceIdsNow : pieces[i].placed <=> i # dragStart.pieceId
  /\ Cardinality(Owned(grid, Null)) = Len(getCells(pieces[dragStart.pieceId]))
  /\ ~checkCompletion(grid, pieces)

(* C5: when canPlace is false for the requested origin, placePiece leaves
   the grid and the piece's placement record (placed, gridRow, gridCol)
   unchanged. *)
C5_IllegalPlaceChangesNothing ==
  \A id \in PieceIdsNow : \A row \in Rows : \A col \in Cols :
     ~canPlace(grid, getCells(pieces[id]), row, col, gridW, gridH, Null)
       => LET out == placePiece(pieces, grid, completed, id, row, col, gridW, gridH)
          IN /\ out.grid = grid
             /\ out.pieces[id].placed = pieces[id].placed
             /\ out.pieces[id].gridRow = pieces[id].gridRow
             /\ out.pieces[id].gridCol = pieces[id].gridCol

\* the cell-sets canPlace is tried on: every piece of the level at its rotation
CellInputs == {getCells(pieces[i]) : i \in PieceIdsNow}

\* the exclude ids canPlace is tried with: none, and every piece on the grid
SelfInputs == {Null} \cup {i \in PieceIdsNow : pieces[i].placed}

(* C6: canPlace(grid, cells, row, col, w, h, selfId) is true if and only if
   every cell (row + r, col + c) lies inside the grid and the grid cell there
   is null or selfId. *)
C6_CanPlaceIff ==
  \A cells \in CellInputs : \A row \in Rows : \A col \in Cols :
  \A selfId \in SelfInputs :
     canPlace(grid, cells, row, col, gridW, gridH, selfId) <=>
       \A i \in 1..Len(cells) :
          /\ 0 <= row + cells[i][1] /\ row + cells[i][1] < gridH
          /\ 0 <= col + cells[i][2] /\ col + cells[i][2] < gridW
          /\ grid[row + cells[i][1]][col + cells[i][2]] \in {Null, selfId}

\* a grid holding a piece next to free cells: every branch of canPlace is taken
C6_Witness ==
  \E id \in PieceIdsNow : \E row \in Rows : \E col \in Cols : \E cells \in CellInputs :
     /\ pieces[id].placed
     /\ canPlace(grid, cells, row, col, gridW, gridH, id)
     /\ ~canPlace(grid, cells, row, col, gridW, gridH, Null)
     /\ \E row2 \in Rows, col2 \in Cols :
           canPlace(grid, cells, row2, col2, gridW, gridH, Null)
     /\ ~canPlace(grid, cells, -1, 0, gridW, gridH, Null)

\* the cells of a cell-set at an origin
Covered(cells, row, col) == {<<row + cells[i][1], col + cells[i][2]>> : i \in 1..Len(cells)}

(* C7: once piece A is placed, canPlace for another piece B is false for
   every cell-set / origin sharing a grid cell with A's cells (exclude id not
   A), and placePiece of B there leaves A's cells holding A's id. *)
C7_OverlapRejected ==
  \A a \in PieceIdsNow : \A b \in PieceIdsNow \ {a} :
  \A row \in Rows : \A col \in Cols :
     LET cellsB == getCells(pieces[b])
     IN (pieces[a].placed /\ Covered(cellsB, row, col) \cap Owned(grid, a) # {})
          => /\ ~canPlace(grid, cellsB, row, col, gridW, gridH, Null)
             /\ ~canPlace(grid, cellsB, row, col, gridW, gridH, b)
             /\ Owned(placePiece(pieces, grid, completed, b, row, col, gridW, gridH).grid, a)
                  = Owned(grid, a)

\* A was placed by a pointer-up, B is in the tray and has origins that overlap A
C7_Witness ==
  \E a \in PieceIdsNow : \E b \in PieceIdsNow \ {a} : \E row \in Rows : \E col \in Cols :
     /\ pieces[a].placed /\ ~pieces[b].placed /\ ~completed
     /\ dragStart = NullStart
     /\ Owned(grid, a) = CellsAt(pieces[a])
     /\ Covered(getCells(pieces[b]), row, col) \cap Owned(grid, a) # {}
     /\ Covered(getCells(pieces[b]), row, col) \subseteq (DOMAIN grid) \X (0..(gridW - 1))

(* C8: after placing piece A with cell-set C at a legal origin O,
   canPlace(grid, C, O, A.id) is true and canPlace(grid, C, O, null) is
   false. *)
C8_SelfExclusion ==
  \A id \in PieceIdsNow : \A row \in Rows : \A col \in Cols :
     LET cells == getCells(pieces[id])
     IN canPlace(grid, cells, row, col, gridW, gridH, Null)
          => LET out == placePiece(pieces, grid, completed, id, row, col, gridW, gridH)
             IN /\ canPlace(out.grid, cells, row, col, gridW, gridH, id)
                /\ ~canPlace(out.grid, cells, row, col, gridW, gridH, Null)

\* a piece dropped by pointer-up on the bottom row of the 3x2 level next to
\* free cells: placePiece has acted, and the piece re-validates only with its id
C8_Witness ==
  \E id \in PieceIdsNow :
     /\ pieces[id].placed /\ pieces[id].gridRow = 1 /\ ~completed
     /\ dragStart = NullStart
     /\ Owned(grid, id) = CellsAt(pieces[id])
     /\ canPlace(grid, getCells(pieces[id]), pieces[id].gridRow, pieces[id].gridCol,
                 gridW, gridH, id)
     /\ ~canPlace(grid, getCells(pieces[id]), pieces[id].gridRow, pieces[id].gridCol,
                  gridW, gridH, Null)

(* C9: for any reachable grid and any legal placement of an unplaced piece,
   placePiece followed by removePiece of the same piece restores the grid
   cell by cell, leaves the piece unplaced and leaves every other piece's
   record unchanged. *)
C9_PlaceRemoveRoundTrip ==
  \A id \in PieceIdsNow : \A row \in Rows : \A col \in Cols :
     (~pieces[id].placed
        /\ canPlace(grid, getCells(pieces[id]), row, col, gridW, gridH, Null))
       => LET placed == placePiece(pieces, grid, completed, id, row, col, gridW, gridH)
              back == removePiece(placed.pieces, placed.grid, placed.completed, id)
          IN /\ placed.grid # grid
             /\ back.grid = grid
             /\ ~back.pieces[id].placed
             /\ \A j \in PieceIdsNow \ {id} : back.pieces[j] = pieces[j]

\* a piece that was placed away from row 0 and that a pointer-down on the
\* grid removed again (removePiece keeps gridRow), with a legal origin still
\* open to it
C9_Witness ==
  \E id \in PieceIdsNow :
     /\ ~pieces[id].placed
     /\ pieces[id].gridRow # 0
     /\ dragStart.pieceId = id
     /\ Owned(grid, id) = {}
     /\ \E row \in Rows, col \in Cols :
           /\ canPlace(grid, getCells(pieces[id]), row, col, gridW, gridH, Null)
           /\ placePiece(pieces, grid, completed, id, row, col, gridW, gridH).grid # grid

(* C10: on pointer-up of a drag session with no valid snap target the dragged
   piece ends unplaced, with the rotation it had at pointer-down, the grid
   holds no cell with its id and the drag session is gone. *)
C10_ReleaseWithoutTargetReverts ==
  [][ (/\ onPointerUp
       /\ drag # NullDrag
       /\ ~(drag.snapRow # Null /\ drag.snapCol # Null)
       /\ dragStart.pieceId \in PieceIdsNow)
        => (/\ ~pieces'[dragStart.pieceId].placed
            /\ pieces'[dragStart.pieceId].rotation = downRotation
            /\ Owned(grid', dragStart.pieceId) = {}
            /\ drag' = NullDrag
            /\ dragStart' = NullStart) ]_vars

(* C11: a pointer-cancel during a drag ends it as a pointer-up without snap
   target does: the drag session is gone and the dragged piece is unplaced
   with the rotation it had at pointer-down. *)
C11_CancelEndsDrag ==
  [][ (onPointerCancel /\ dragStart.pieceId \in PieceIdsNow)
        => (/\ dragStart' = NullStart
            /\ drag' = NullDrag
            /\ ~pieces'[dragStart.pieceId].placed
            /\ pieces'[dragStart.pieceId].rotation = downRotation) ]_vars

\* the piece of the drag and the sample a step of GestureSpec feeds
Dragged == dragStart.pieceId
NewPoint == <<drag'.svgX, drag'.svgY + dragStart.lift>>

\* this step turns the dragged piece a quarter clockwise / counter-clockwise
EmitsCW == pieces'[Dragged].rotation = (pieces[Dragged].rotation + 1) % 4
EmitsCCW == pieces'[Dragged].rotation = (pieces[Dragged].rotation + 3) % 4

\* the accumulated signed turn once the new sample is in, when the sample
\* adds a turn at all (three points, no repeated point)
TurnWith(pt) ==
  LET n == Len(gesture.points)
  IN IF n < 2 \/ gesture.points[n] = pt \/ gesture.points[n - 1] = gesture.points[n]
     THEN gesture.totalTurn
     ELSE gesture.totalTurn + turnAngle(gesture.points[n - 1], gesture.points[n], pt)

(* C12: a sample turns the piece clockwise exactly when it comes outside the
   cooldown and takes the accumulated turn strictly beyond pi, counter-
   clockwise strictly beyond -pi; a sample that turns the piece empties the
   history, zeroes the accumulator and starts a cooldown of 400 ms; no sample
   before the end of the cooldown turns the piece. *)
C12_RotateOnlyBeyondPi ==
  [][ onPointerMoveAt(NewPoint[1], NewPoint[2], now') =>
        /\ EmitsCW <=> (now' >= gesture.cooldownUntil /\ Len(gesture.points) >= 2
                          /\ TurnWith(NewPoint) > PiUnits)
        /\ EmitsCCW <=> (now' >= gesture.cooldownUntil /\ Len(gesture.points) >= 2
                           /\ TurnWith(NewPoint) < -PiUnits)
        /\ (EmitsCW \/ EmitsCCW) =>
              /\ gesture'.points = <<>>
              /\ gesture'.totalTurn = 0
              /\ gesture'.cooldownUntil = now' + 400
        /\ now' < gesture.cooldownUntil => pieces' = pieces ]_vars

\* the piece has been turned, the pointer keeps circling and the cooldown
\* still runs: samples during the cooldown have been fed
C12_Witness ==
  /\ pieces[Dragged].rotation # downRotation
  /\ now < gesture.cooldownUntil
  /\ gesture.cooldownUntil + 100 <= now + 400
  /\ Cardinality(seen) >= 3

\* every sample of the drag so far lies on one straight line
Colinear(S) ==
  \A p, q, r \in S :
     (q[1] - p[1]) * (r[2] - p[2]) = (q[2] - p[2]) * (r[1] - p[1])

(* C13: as long as all samples of the drag lie on one straight line the
   dragged piece keeps the rotation it had at pointer-down. *)
C13_StraightDragNeverRotates ==
  Colinear(seen) => pieces[Dragged].rotation = downRotation

\* the grid cells the i-th entry of lv.canonicalSolutions covers
SolutionCells(lv, i) ==
  LET sol == lv.canonicalSolutions[i]
  IN {<<sol.row + c[1], sol.col + c[2]>> :
        c \in Range(applyRotation(SHAPES[lv.pieces[sol.pieceIndex + 1]], sol.rotation))}

\* lv.canonicalSolutions places every piece of lv once, inside the grid,
\* on cells no other piece covers, and leaves no cell of the grid empty
SolutionValid(lv) ==
  LET n == Len(lv.canonicalSolutions)
      Inside == (0..(lv.gridHeight - 1)) \X (0..(lv.gridWidth - 1))
  IN /\ {lv.canonicalSolutions[i].pieceIndex : i \in 1..n} = 0..(Len(lv.pieces) - 1)
     /\ n = Len(lv.pieces)
     /\ \A i \in 1..n : SolutionCells(lv, i) \subseteq Inside
     /\ \A i, j \in 1..n : i # j => SolutionCells(lv, i) \cap SolutionCells(lv, j) = {}
     /\ UNION {SolutionCells(lv, i) : i \in 1..n} = Inside

(* C14: in both copies of the catalogue the canonical solution of the level
   at every index keeps every cell inside the grid, covers no cell twice and
   leaves no cell empty. *)
C14_CanonicalSolutionsValid ==
  /\ SolutionValid(LEVELS[levelIndex])
  /\ SolutionValid(OlderLEVELS[levelIndex])

(* C15: after goToLevel(idx) the grid of level idx is entirely empty and
   every piece of level idx is unplaced with rotation 0, whether or not the
   level was visited before. *)
C15_GoToLevelFresh ==
  [][ Nav => (/\ \A r \in DOMAIN grid' : \A c \in DOMAIN grid'[r] : grid'[r][c] = Null
              /\ \A i \in DOMAIN pieces' :
                    ~pieces'[i].placed /\ pieces'[i].rotation = 0) ]_vars

(* C16: a pointer-down on a piece while a drag session is active is ignored:
   the session keeps its piece id and its drag-start rotation, and no piece
   and no grid cell changes. *)
C16_DownDuringDragIgnored ==
  [][ (dragStart # NullStart /\ (TrayDown \/ GridDown))
        => (/\ dragStart'.pieceId = dragStart.pieceId
            /\ downRotation' = downRotation
            /\ drag'.pieceId = drag.pieceId
            /\ pieces' = pieces
            /\ grid' = grid) ]_vars

(* C17: whenever a pointer-move (gesture rotation) or a pointer-up (rotation
   revert) changes the rotation of a piece, that piece is not placed. *)
C17_RotateOnlyUnplaced ==
  [][ (Move \/ Up)
        => \A i \in DOMAIN pieces :
              pieces'[i].rotation # pieces[i].rotation => ~pieces[i].placed ]_vars

\* the one-cell shape
Monomino == << <<0, 0>> >>

\* rotateCW applied four times to cells gives the same set of cells
Closes(cells) == Range(applyRotationLoop(cells, 4)) = Range(cells)

(* C18: rotateCW applied four times to a shape of SHAPES, to the one-cell
   shape and to the effective cells of a piece on screen gives the same set
   of cells; rotateCW leaves the one-cell shape as it is. *)
C18_RotationClosure ==
  /\ \A name \in DOMAIN SHAPES : Closes(SHAPES[name])
  /\ Closes(Monomino)
  /\ rotateCW(Monomino) = Monomino
  /\ \A i \in PieceIdsNow : Closes(getCells(pieces[i]))

\* a piece turned three quarters, lying differently from its base shape,
\* that one more rotateCW brings back to the base shape
C18_Witness ==
  \E i \in PieceIdsNow :
     /\ pieces[i].rotation = 3
     /\ ~pieces[i].placed
     /\ Range(getCells(pieces[i])) # Range(SHAPES[pieces[i].baseShape])
     /\ Range(rotateCW(getCells(pieces[i]))) = Range(SHAPES[pieces[i].baseShape])

\* cells has n distinct cells, none with a negative offset, one in row 0 and
\* one in column 0
Normalized(cells, n) ==
  /\ Len(cells) = n
  /\ Cardinality(Range(cells)) = n
  /\ \A c \in Range(cells) : c[1] >= 0 /\ c[2] >= 0
  /\ MinOf({c[1] : c \in Range(cells)}) = 0
  /\ MinOf({c[2] : c \in Range(cells)}) = 0

(* C19: every shape of SHAPES at every rotation count 0..3, and the effective
   cells of every piece on screen, have only non-negative offsets, minimum
   row 0, minimum column 0, and as many cells as the base shape. *)
C19_Normalization ==
  /\ \A name \in DOMAIN SHAPES : \A k \in 0..3 :
        Normalized(applyRotation(SHAPES[name], k), Cardinality(Range(SHAPES[name])))
  /\ \A i \in PieceIdsNow :
        Normalized(getCells(pieces[i]), Cardinality(Range(SHAPES[pieces[i].baseShape])))

\* pieces of one level at rotation counts 1 and 2, each lying differently
\* from its base shape
C19_Witness ==
  \E i, j \in PieceIdsNow :
     /\ pieces[i].rotation = 1
     /\ pieces[j].rotation = 2
     /\ Range(getCells(pieces[i])) # Range(SHAPES[pieces[i].baseShape])
     /\ Range(getCells(pieces[j])) # Range(SHAPES[pieces[j].baseShape])

\* the pieces with piece i at rotation count k
withRotation(ps, i, k) == [ps EXCEPT ![i] = [@ EXCEPT !.rotation = k]]

(* C20: in every state, giving any unplaced piece any rotation count 0..3
   leaves the tray layout as it is: the same pieces in the same rows, each
   with the same x, y and width, and the same tray height. *)
C20_TrayLayoutIgnoresRotation ==
  \A i \in PieceIdsNow : \A k \in 0..3 :
     ~pieces[i].placed =>
        /\ rowItems(withRotation(pieces, i, k), gridW) = rowItems(pieces, gridW)
        /\ trayLayout(withRotation(pieces, i, k), gridW, gridH)
             = trayLayout(pieces, gridW, gridH)

\* a tray of two rows holding a piece turned a quarter whose rotated cells are
\* wider or narrower than its base shape
C20_Witness ==
  /\ Len(rowItems(pieces, gridW)) >= 2
  /\ \E i \in PieceIdsNow :
        /\ ~pieces[i].placed
        /\ pieces[i].rotation = 1
        /\ MaxOf({c[2] : c \in trayFootprintRotated(pieces[i])})
             # MaxOf({c[2] : c \in trayFootprint(pieces[i])})

\* the rows of a tray one after the other
RECURSIVE Flatten(_)
Flatten(rows) == IF rows = <<>> THEN <<>> ELSE Head(rows) \o Flatten(Tail(rows))

\* the boxes of positions k and m of a tray do not overlap
BoxesDisjoint(pos, items, k, m) ==
  \/ pos[k].x + pos[k].w <= pos[m].x
  \/ pos[m].x + pos[m].w <= pos[k].x
  \/ pos[k].y + items[k].ph <= pos[m].y
  \/ pos[m].y + items[m].ph <= pos[k].y

\* the height of a row: its highest piece, TRAY_ROW_H at least
RowHeight(row) == MaxOf({row[k].ph : k \in 1..Len(row)} \cup {2 * TRAY_ROW_H})

\* the top of row r: rows follow each other at their height plus TRAY_PAD_Y
RECURSIVE RowTop(_, _)
RowTop(rows, r) ==
  IF r = 1 THEN 2 * trayY(gridH) + 2 * TRAY_PAD_Y
  ELSE RowTop(rows, r - 1) + RowHeight(rows[r - 1]) + 2 * TRAY_PAD_Y

\* the number of positions before row r
RECURSIVE Before(_, _)
Before(rows, r) == IF r = 1 THEN 0 ELSE Before(rows, r - 1) + Len(rows[r - 1])

(* C21: the tray is packed in one greedy pass: the rows list the unplaced
   pieces in tray order; a row is empty only when the tray is; each row is
   at most the maximum row width wide, gaps included, and the first piece of
   every later row would not have fitted at the end of the row before; every
   piece is centred in a row as high as its highest piece, TRAY_ROW_H at
   least; the boxes of two tray pieces never overlap. *)
C21_GreedyRowsNoOverlap ==
  LET rows == rowItems(pieces, gridW)
      pos == trayLayout(pieces, gridW, gridH).positions
      items == Flatten(rows)
      tray == trayPieces(pieces)
  IN /\ [k \in 1..Len(items) |-> items[k].piece] = tray
     /\ [k \in 1..Len(pos) |-> pos[k].piece] = tray
     /\ \A r \in 1..Len(rows) :
           /\ rows[r] = <<>> => tray = <<>>
           /\ Len(rows[r]) >= 2 => totalW(rows[r]) <= trayMaxW(gridW)
           /\ r > 1 => totalW(rows[r - 1]) + 2 * GAP + rows[r][1].pw > trayMaxW(gridW)
           /\ \A k \in 1..Len(rows[r]) :
                 /\ RowHeight(rows[r]) >= rows[r][k].ph
                 /\ 2 * pos[Before(rows, r) + k].y
                      = 2 * RowTop(rows, r) + RowHeight(rows[r]) - rows[r][k].ph
     /\ \A k, m \in 1..Len(pos) : k # m => BoxesDisjoint(pos, items, k, m)

\* a tray of two rows, two pieces or more in the first, with a piece higher
\* than TRAY_ROW_H and a piece turned a quarter
C21_Witness ==
  LET rows == rowItems(pieces, gridW)
  IN /\ Len(rows) = 2
     /\ Len(rows[1]) >= 2
     /\ \E k \in 1..Len(rows[2]) : rows[2][k].ph > 2 * TRAY_ROW_H
     /\ \E i \in PieceIdsNow : pieces[i].rotation = 3

(* C22: removePiece on a piece that is not placed, or on an id no piece has,
   changes nothing: the grid, every piece record and the completed flag are
   returned as they were given. *)
C22_RemoveUnplacedIsNoOp ==
  \A g \in GridInputs : \A comp \in BOOLEAN : \A id \in PieceIdsNow \cup {Null} :
     (id \notin PieceIdsNow \/ ~pieces[id].placed)
        => removePiece(pieces, g, comp, id)
             = [pieces |-> pieces, grid |-> g, completed |-> comp]

\* a piece in the tray next to a piece on the grid, no drag in progress
C22_Witness ==
  /\ dragStart = NullStart
  /\ drag = NullDrag
  /\ \E i, j \in PieceIdsNow :
        /\ ~pieces[i].placed
        /\ Owned(grid, i) = {}
        /\ pieces[j].placed
        /\ Owned(grid, j) # {}

(* C23: resetLevel leaves every piece of the level unplaced with rotation 0,
   every grid cell empty, completed false and no drag in progress: neither a
   drag record nor a pointer session that a later pointer-move or pointer-up
   would act on. *)
C23_ResetLeavesNothing ==
  [][ Reset => (/\ \A i \in DOMAIN pieces' :
                      ~pieces'[i].placed /\ pieces'[i].rotation = 0
                /\ \A r \in DOMAIN grid' : \A c \in DOMAIN grid'[r] : grid'[r][c] = Null
                /\ ~completed'
                /\ drag' = NullDrag
                /\ dragStart' = NullStart) ]_vars

\* the snap target of the dragged piece, lying as cells, for the sample (x, y)
SnapFor(cells, x, y) ==
  LET snap == snapToGrid(x, y - dragStart.lift, cells, gridW)
  IN IF canPlace(grid, cells, snap.row, snap.col, gridW, gridH, Null)
     THEN snap ELSE [row |-> Null, col |-> Null]

(* C24: a pointer-move sample during the cooldown moves the drag to the
   sample and gives it the snap target canPlace allows the piece at its
   current rotation, while the history stays empty, the accumulated turn
   stays as it is and no piece is turned. *)
C24_CooldownStillTranslates ==
  [][ \A x \in PointerXs : \A y \in GestureYs :
        (onPointerMoveAt(x, y, now') /\ now' < gesture.cooldownUntil) =>
           /\ drag'.pieceId = Dragged
           /\ drag'.svgX = x
           /\ drag'.svgY = y - dragStart.lift
           /\ drag'.snapRow = SnapFor(getCells(pieces[Dragged]), x, y).row
           /\ drag'.snapCol = SnapFor(getCells(pieces[Dragged]), x, y).col
           /\ gesture'.points = <<>>
           /\ gesture'.totalTurn = gesture.totalTurn
           /\ gesture'.cooldownUntil = gesture.cooldownUntil
           /\ pieces' = pieces ]_vars

\* during a cooldown, after a sample of it: the drag has no snap target where
\* the piece as it lay at pointer-down would have one
C24_Witness ==
  /\ now < gesture.cooldownUntil
  /\ now > gesture.cooldownUntil - GESTURE_COOLDOWN
  /\ gesture.points = <<>>
  /\ pieces[Dragged].rotation # downRotation
  /\ drag.snapRow = Null
  /\ SnapFor(applyRotation(SHAPES[pieces[Dragged].baseShape], downRotation),
             drag.svgX, drag.svgY + dragStart.lift).row # Null

\* the drag record names a piece of the level and holds a snap target
HasSnap == drag # NullDrag /\ drag.snapRow # Null /\ drag.snapCol # Null
                           /\ drag.pieceId \in PieceIdsNow

\* the cells the preview of the drag record covers
Previewed ==
  {<<drag.snapRow + c[1], drag.snapCol + c[2]>> : c \in Range(getCells(pieces[drag.pieceId]))}

(* C25: whenever the drag record holds a snap target, canPlace allows the
   dragged piece at its current rotation there on the current grid; and the
   pointer-up that commits a snap target leaves the piece placed at that
   origin, owning exactly the previewed cells of the grid. *)
C25_SnapTargetIsLegal ==
  /\ [](HasSnap => canPlace(grid, getCells(pieces[drag.pieceId]),
                            drag.snapRow, drag.snapCol, gridW, gridH, Null))
  /\ [][ (onPointerUp /\ HasSnap /\ dragStart.pieceId = drag.pieceId)
           => (/\ pieces'[drag.pieceId].placed
               /\ pieces'[drag.pieceId].gridRow = drag.snapRow
               /\ pieces'[drag.pieceId].gridCol = drag.snapCol
               /\ Owned(grid', drag.pieceId) = Previewed) ]_vars

(* C26: the trayOrder values of the pieces of the level are a permutation of
   0..n-1 in every state; no pointer-down, pointer-move, pointer-up or
   pointer-cancel changes the trayOrder of a piece; the tray lists exactly
   the unplaced pieces, in increasing trayOrder. *)
C26_TrayOrderFixed ==
  /\ [](/\ {pieces[i].trayOrder : i \in PieceIdsNow} = 0..(Cardinality(PieceIdsNow) - 1)
        /\ LET tray == trayPieces(pieces)
           IN /\ Range(tray) = {i \in PieceIdsNow : ~pieces[i].placed}
              /\ \A k, m \in 1..Len(tray) :
                    k < m => pieces[tray[k]].trayOrder < pieces[tray[m]].trayOrder)
  /\ [][ (TrayDown \/ GridDown \/ Move \/ Up \/ Cancel)
           => \A i \in PieceIdsNow : pieces'[i].trayOrder = pieces[i].trayOrder ]_vars

\* two pieces back in the tray after they were on the grid, the one with the
\* higher id first in the tray, a third piece still on the grid
C26_Witness ==
  \E i, j, k \in PieceIdsNow :
     /\ i < j
     /\ ~pieces[i].placed /\ ~pieces[j].placed /\ pieces[k].placed
     /\ pieces[i].gridRow + pieces[i].gridCol + pieces[j].gridRow + pieces[j].gridCol > 0
     /\ pieces[j].trayOrder < pieces[i].trayOrder
     /\ trayPieces(pieces) = <<j, i>>

\* the sample a step of HistorySpec feeds
LongPoint == <<drag'.svgX, drag'.svgY + dragStart.lift>>

(* C27: the pointer history never holds more than 30 samples; a sample that
   takes it beyond 30 leaves the 25 most recent ones; the history is empty
   after a sample that turns the piece, after a sample during the cooldown,
   and after resetGesture. *)
C27_HistoryBounded ==
  /\ [](Len(gesture.points) <= 30)
  /\ emptyGestureRef.points = <<>>
  /\ [][ onPointerMoveLong(LongPoint[1], LongPoint[2], now') =>
           /\ pieces' # pieces => gesture'.points = <<>>
           /\ now' < gesture.cooldownUntil => gesture'.points = <<>>
           /\ (Len(gesture.points) = 30 /\ now' >= gesture.cooldownUntil /\ pieces' = pieces)
                 => gesture'.points = SubSeq(Append(gesture.points, LongPoint), 7, 31)
           /\ (Len(gesture.points) < 30 /\ now' >= gesture.cooldownUntil /\ pieces' = pieces)
                 => gesture'.points = Append(gesture.points, LongPoint) ]_vars

\* the history just trimmed: 25 samples left after more than 30 were fed
C27_Witness ==
  /\ Len(gesture.points) = 25
  /\ steps > 30
  /\ gesture.cooldownUntil = 0

\* the history emptied by a turn after it had grown long, with samples of the
\* cooldown fed since
C27_Emptied ==
  /\ gesture.points = <<>>
  /\ steps > TwistFrom
  /\ now < gesture.cooldownUntil
  /\ now > gesture.cooldownUntil - GESTURE_COOLDOWN

\* what updateGesture returns for the sample of this step of GestureSpec
Returned == updateGestureAt(gesture, NewPoint[1], NewPoint[2], now').rot

\* the pieces with the dragged piece turned by k quarters
Turned(k) ==
  [i \in PieceIdsNow |->
     IF i = Dragged THEN [pieces[i] EXCEPT !.rotation = (pieces[i].rotation + k) % 4]
     ELSE pieces[i]]

(* C28: the rotation count of every piece is one of 0, 1, 2, 3 in every
   state; a clockwise rotate event sets the rotation of the dragged piece to
   (rotation + 1) mod 4, a counter-clockwise one to (rotation + 3) mod 4, and
   a sample without event leaves the pieces alone; a clockwise turn followed
   by a counter-clockwise one, or the reverse, gives back the effective
   cells the piece had. *)
C28_QuarterTurnsModFour ==
  /\ [](\A i \in PieceIdsNow : pieces[i].rotation \in 0..3)
  /\ [](\A i \in PieceIdsNow : \A r \in 0..3 :
          /\ getCells([pieces[i] EXCEPT !.rotation = (((r + 1) % 4) + 3) % 4])
               = getCells([pieces[i] EXCEPT !.rotation = r])
          /\ getCells([pieces[i] EXCEPT !.rotation = (((r + 3) % 4) + 1) % 4])
               = getCells([pieces[i] EXCEPT !.rotation = r]))
  /\ [][ onPointerMoveAt(NewPoint[1], NewPoint[2], now') =>
           /\ Returned = 1 => pieces' = Turned(1)
           /\ Returned = -1 => pieces' = Turned(3)
           /\ Returned = 0 => pieces' = pieces ]_vars

\* a rotate event has just brought the piece back to the rotation it had at
\* pointer-down: a turn one way was followed by a turn the other way
C28_Witness ==
  /\ pieces[Dragged].rotation = downRotation
  /\ gesture.cooldownUntil = now + GESTURE_COOLDOWN
  /\ gesture.points = <<>>
  /\ now > 0


(* C29: grid and piece records agree in every reachable state: a grid cell
   holds id p if and only if piece p is placed and the cell belongs to p's
   effective cell-set (current rotation) at its recorded origin; hence an
   unplaced piece owns no grid cell and a placed piece owns exactly as many
   cells as its shape has. *)
C29_GridAgreesWithPieces ==
  \A p \in PieceIdsNow :
     /\ Owned(grid, p) = (IF pieces[p].placed THEN CellsAt(pieces[p]) ELSE {})
     /\ pieces[p].placed
          => Cardinality(Owned(grid, p)) = Len(SHAPES[pieces[p].baseShape])


\* what goToLevel keeps of the level on screen
Snapshot == [ present |-> TRUE, pieces |-> pieces, grid |-> grid, completed |-> completed ]

\* a piece list and a grid of the shape level l asks for
FitsLevel(l, ps, g) ==
  /\ DOMAIN ps = 0..(Len(LEVELS[l].pieces) - 1)
  /\ DOMAIN g = 0..(LEVELS[l].gridHeight - 1)
  /\ \A r \in DOMAIN g : DOMAIN g[r] = 0..(LEVELS[l].gridWidth - 1)

\* level l as initPieces and makeGrid build it
Untouched(l, ps, g) ==
  /\ \E order \in Shuffles(Len(LEVELS[l].pieces)) : ps = initPieces(LEVELS[l], order)
  /\ g = makeGrid(LEVELS[l].gridWidth, LEVELS[l].gridHeight)

(* C30: level cache round-trip: leaving level i with goToLevel(j) stores the
   pieces, grid and completed flag of level i; no step taken on another level
   changes what is stored for level i; returning with goToLevel(i) puts back
   exactly what is stored (placement, origin, rotation, tray order, grid,
   completed flag), and a level with nothing stored is entered fresh.
   resetLevel on level i drops what is stored for i and leaves level i fresh,
   so no later navigation restores a placement made before the reset.  The
   grid dimensions and the piece count match the level on screen, and those
   of every stored level match that level, in every reachable state. *)
C30_LevelCacheRoundTrip ==
  /\ [](/\ FitsLevel(levelIndex, pieces, grid)
        /\ \A l \in LevelIds :
              levelCache[l].present => FitsLevel(l, levelCache[l].pieces, levelCache[l].grid))
  /\ [][ /\ \A l \in LevelIds \ {levelIndex} :
              l # levelIndex' => levelCache'[l] = levelCache[l]
         /\ levelIndex' # levelIndex =>
              /\ levelCache'[levelIndex] = Snapshot
              /\ levelCache'[levelIndex'] = levelCache[levelIndex']
              /\ IF levelCache[levelIndex'].present
                 THEN /\ pieces' = levelCache[levelIndex'].pieces
                      /\ grid' = levelCache[levelIndex'].grid
                      /\ completed' = levelCache[levelIndex'].completed
                 ELSE /\ Untouched(levelIndex', pieces', grid')
                      /\ ~completed'
         /\ Reset =>
              /\ levelCache'[levelIndex] = NoCache
              /\ Untouched(levelIndex, pieces', grid')
              /\ ~completed'
         /\ (levelIndex' = levelIndex /\ ~Reset) =>
              levelCache'[levelIndex] = levelCache[levelIndex] ]_vars

\* back on the first level after a visit to the next one, with the piece that
\* was on the grid when the level was left on the grid again
C30_Witness ==
  /\ levelIndex = FirstLevel
  /\ \A l \in LevelIds : levelCache[l].present
  /\ levelCache[levelIndex] = Snapshot
  /\ \E i \in PieceIdsNow : pieces[i].placed /\ Owned(grid, i) # {}

====
